---- MODULE Spec2Model ----
(***************************************************************************)
(* Screenplay layer of automation-playwright-py-screenplay: Actor,         *)
(* BrowseTheWeb ability, the Navigate / Click / Type interactions, the     *)
(* Visibility / Presence / Text / CurrentUrl / PageTitle questions and the *)
(* Login tasks, executed against a model of the Playwright driver objects  *)
(* (one browser, its contexts, their pages).                               *)
(*                                                                         *)
(* Every method is an operator from a machine record m to the machine      *)
(* record after the call.  m holds the Python objects (actors, heap), the  *)
(* driver objects (driver), the log of the calls made so far (trace), the  *)
(* exception in flight (exc) and the returned value (ret).                 *)
(***************************************************************************)
EXTENDS Integers, Sequences, FiniteSets, TLC

VARIABLES
    actors,     \* actor id -> [name, _abilities]: the Actor objects
    heap,       \* the BrowseTheWeb instances, by object id
    driver,     \* the Playwright browser, its contexts and pages
    closedBy,   \* history: <<ability, context>> for every context closed by
                \* close_context() of that ability
    lastCall,   \* the last call made by the test code, with its outcome
    retrying    \* a function decorated by retry(...) or a RetryableAction,
                \* with the outcome of its last call (src/utils/retry.py)

vars == <<actors, heap, driver, closedBy, lastCall, retrying>>

-----------------------------------------------------------------------------
(* Bounds of the model *)

\* the objects (abilities, contexts, pages) a run of each specification
\* creates at most
ActorMaxObjects == 6
AbilityMaxObjects == 5
PerformMaxObjects == 4
\* the abilities one who_can call is given at most
MaxGrants == 2
\* retry utilities: the largest max_attempts, delay (seconds) and backoff
MaxAttempts == 3
MaxDelay == 1
MaxBackoff == 2

-----------------------------------------------------------------------------
(* Python values *)

None == 0

ActorIds == {1, 2}

\* Actor("TestUser"), Actor("AdminUser")
ActorName(a) == IF a = 1 THEN "TestUser" ELSE "AdminUser"

\* classes usable as keys of Actor._abilities; Ability is the abstract base
AbilityClasses == {"BrowseTheWeb", "Ability"}

\* an options dict, as its set of <<key, value>> items
NoOptions == {}

\* a returned value: t is its Python type, i / s its payload
RetNone == [t |-> "None", i |-> 0, s |-> ""]
RetObj(t, i) == [t |-> t, i |-> i, s |-> ""]
RetStr(s) == [t |-> "str", i |-> 0, s |-> s]
RetBool(b) == [t |-> "bool", i |-> IF b THEN 1 ELSE 0, s |-> ""]

\* an exception: at is the position in the trace of the call that raised it
NoExc == [type |-> "", actor |-> "", kind |-> "", at |-> 0]
Raised(m) == m.exc.type # ""
Raise(m, e) == [m EXCEPT !.exc = e, !.ret = RetNone]
Return(m, r) == [m EXCEPT !.ret = r]

\* one statement after another, as in the bodies of perform_as and
\* answered_by: an exception raised by the first ends the method, else the
\* rest runs on the outcome of the first
Then(m, rest(_)) == IF Raised(m) THEN m ELSE rest(m)

\* try: body / except Exception: handler (questions/visibility.py)
Try(m, handler(_)) == IF Raised(m) THEN handler(m) ELSE m

-----------------------------------------------------------------------------
(* Performables and questions as values *)

NoPerformable ==
    [type |-> "", url |-> "", locator |-> "", text |-> "", username |-> "",
     password |-> "", options |-> NoOptions]

Navigate(url, options) ==
    [NoPerformable EXCEPT !.type = "Navigate", !.url = url, !.options = options]

Click(locator, options) ==
    [NoPerformable EXCEPT !.type = "Click", !.locator = locator, !.options = options]

Type(text, locator, options) ==
    [NoPerformable EXCEPT !.type = "Type", !.text = text, !.locator = locator,
                          !.options = options]

Login(username, password) ==
    [NoPerformable EXCEPT !.type = "Login", !.username = username,
                          !.password = password]

NavigateToLoginPage == [NoPerformable EXCEPT !.type = "NavigateToLoginPage"]

EnterCredentials(username, password) ==
    [NoPerformable EXCEPT !.type = "EnterCredentials", !.username = username,
                          !.password = password]

SubmitLoginForm == [NoPerformable EXCEPT !.type = "SubmitLoginForm"]

Question(type, locator) == [type |-> type, locator |-> locator]

\* LoginPageLocators
USERNAME_FIELD == "#username"
PASSWORD_FIELD == "#password"
SUBMIT_BUTTON == "#submit"
ERROR_MESSAGE == "#error"

\* settings.get_test_urls()["login"]
LoginUrl == "https://practicetestautomation.com/practice-test-login/"

-----------------------------------------------------------------------------
(* The trace: one event per call *)

\* raises: the call ended by raising
Event(call, obj, locator, text, options, p, depth) ==
    [call |-> call, obj |-> obj, locator |-> locator, text |-> text,
     options |-> options, p |-> p, depth |-> depth, raises |-> FALSE]

DriverEvent(call, obj, locator, text, options) ==
    Event(call, obj, locator, text, options, NoPerformable, 0)

Log(m, ev) == [m EXCEPT !.trace = Append(@, ev)]

-----------------------------------------------------------------------------
(* The Playwright driver objects *)

ContextAlive(d, c) == d.browserOpen /\ d.contexts[c].open
PageAlive(d, p) == ContextAlive(d, d.pages[p].context) /\ d.pages[p].open

\* A driver call: logged, then it raises when its target is closed or when
\* the environment makes this call fail (m.fault), else it goes through.
Dispatch(m, ev, alive) ==
    LET n == Len(m.trace) + 1
        m1 == Log(m, [ev EXCEPT !.raises = ~alive \/ m.fault.at = 1])
    IN  IF ~alive
        THEN Raise(m1, [NoExc EXCEPT !.type = "TargetClosedError", !.at = n])
        ELSE IF m.fault.at = 1
        THEN [Raise(m1, [NoExc EXCEPT !.type = m.fault.type, !.at = n])
                 EXCEPT !.fault.at = 0]
        ELSE [m1 EXCEPT !.fault.at = IF @ > 0 THEN @ - 1 ELSE 0, !.ret = RetNone]

Browser_new_context(m) ==
    Then(Dispatch(m, DriverEvent("new_context", 0, "", "", NoOptions),
                  m.driver.browserOpen),
         LAMBDA d :
             [d EXCEPT !.driver.contexts = Append(@, [open |-> TRUE]),
                       !.ret = RetObj("BrowserContext", Len(m.driver.contexts) + 1)])

Context_new_page(m, c) ==
    Then(Dispatch(m, DriverEvent("new_page", c, "", "", NoOptions),
                  ContextAlive(m.driver, c)),
         LAMBDA d :
             [d EXCEPT !.driver.pages =
                           Append(@, [context |-> c, open |-> TRUE,
                                      url |-> "about:blank"]),
                       !.ret = RetObj("Page", Len(m.driver.pages) + 1)])

\* closing what is closed already is a no-op in Playwright
Page_close(m, p) ==
    Then(Dispatch(m, DriverEvent("page.close", p, "", "", NoOptions), TRUE),
         LAMBDA d : [d EXCEPT !.driver.pages[p].open = FALSE])

Context_close(m, c) ==
    Then(Dispatch(m, DriverEvent("context.close", c, "", "", NoOptions), TRUE),
         LAMBDA d :
             [d EXCEPT !.driver.contexts[c].open = FALSE,
                       !.driver.pages =
                           [p \in DOMAIN @ |->
                               IF @[p].context = c
                               THEN [@[p] EXCEPT !.open = FALSE] ELSE @[p]]])

Browser_close(m) ==
    Then(Dispatch(m, DriverEvent("browser.close", 0, "", "", NoOptions), TRUE),
         LAMBDA d :
             [d EXCEPT !.driver.browserOpen = FALSE,
                       !.driver.contexts =
                           [c \in DOMAIN @ |-> [@[c] EXCEPT !.open = FALSE]],
                       !.driver.pages =
                           [p \in DOMAIN @ |-> [@[p] EXCEPT !.open = FALSE]]])

Page_goto(m, p, url, options) ==
    Then(Dispatch(m, DriverEvent("goto", p, "", url, options),
                  PageAlive(m.driver, p)),
         LAMBDA d : [d EXCEPT !.driver.pages[p].url = url])

Page_wait_for_load_state(m, p, state) ==
    Dispatch(m, DriverEvent("wait_for_load_state", p, "", state, NoOptions),
             PageAlive(m.driver, p))

Page_wait_for_selector(m, p, locator, state) ==
    Dispatch(m, DriverEvent("wait_for_selector", p, locator, state, NoOptions),
             PageAlive(m.driver, p))

Page_click(m, p, locator, options) ==
    Dispatch(m, DriverEvent("click", p, locator, "", options), PageAlive(m.driver, p))

Page_fill(m, p, locator, text) ==
    Dispatch(m, DriverEvent("fill", p, locator, text, NoOptions),
             PageAlive(m.driver, p))

Page_type(m, p, locator, text, options) ==
    Dispatch(m, DriverEvent("type", p, locator, text, options),
             PageAlive(m.driver, p))

Page_is_visible(m, p, locator) ==
    Then(Dispatch(m, DriverEvent("is_visible", p, locator, "", NoOptions),
                  PageAlive(m.driver, p)),
         LAMBDA d : Return(d, RetBool(m.env.visible)))

\* the element handle found, or None
Page_query_selector(m, p, locator) ==
    Then(Dispatch(m, DriverEvent("query_selector", p, locator, "", NoOptions),
                  PageAlive(m.driver, p)),
         LAMBDA d :
             Return(d, IF m.env.present THEN RetObj("ElementHandle", 1) ELSE RetNone))

\* the text content, or None
Page_text_content(m, p, locator) ==
    Then(Dispatch(m, DriverEvent("text_content", p, locator, "", NoOptions),
                  PageAlive(m.driver, p)),
         LAMBDA d :
             Return(d, IF m.env.content = "None" THEN RetNone
                       ELSE RetStr(m.env.content)))

\* page.url is an attribute read: no call is dispatched
Page_url(m, p) == Return(m, RetStr(m.driver.pages[p].url))

Page_title(m, p) ==
    Then(Dispatch(m, DriverEvent("title", p, "", "", NoOptions),
                  PageAlive(m.driver, p)),
         LAMBDA d : Return(d, RetStr(m.env.title)))

-----------------------------------------------------------------------------
(* BrowseTheWeb (src/screenplay/abilities/browse_the_web.py) *)

\* BrowseTheWeb.__init__: the new instance is the last cell of the heap
BrowseTheWeb(m, browser, context, page) ==
    Return([m EXCEPT !.heap =
                Append(@, [class |-> "BrowseTheWeb", _browser |-> browser,
                           _context |-> context, _page |-> page, _actor |-> None])],
           RetObj("BrowseTheWeb", Len(m.heap) + 1))

using(m, browser) == BrowseTheWeb(m, browser, None, None)

\* page.context.browser, page.context, page
using_page(m, page) == BrowseTheWeb(m, 1, m.driver.pages[page].context, page)

\* a copy that is never bound: _actor stays None
as_actor_unbound(m, self, actor) ==
    BrowseTheWeb(m, m.heap[self]._browser, m.heap[self]._context, m.heap[self]._page)

\* binds in place: sets _actor on the instance itself and returns it
as_actor_in_place(m, self, actor) ==
    Return([m EXCEPT !.heap[self]._actor = actor], RetObj("BrowseTheWeb", self))

\* the copy is built from the browser and the context only: the page is lost
as_actor_dropping_page(m, self, actor) ==
    Then(BrowseTheWeb(m, m.heap[self]._browser, m.heap[self]._context, None),
         LAMBDA m1 :
             Return([m1 EXCEPT !.heap[m1.ret.i]._actor = actor], m1.ret))

as_actor(m, self, actor) ==
    Then(BrowseTheWeb(m, m.heap[self]._browser, m.heap[self]._context,
                      m.heap[self]._page),
         LAMBDA m1 :
             Return([m1 EXCEPT !.heap[m1.ret.i]._actor = actor], m1.ret))

\* no cache: every read asks the browser for a new context
BrowseTheWeb_context_always_new(m, self) ==
    Then(Browser_new_context(m),
         LAMBDA m1 : Return([m1 EXCEPT !.heap[self]._context = m1.ret.i], m1.ret))

BrowseTheWeb_context(m, self) ==
    IF m.heap[self]._context = None
    THEN Then(Browser_new_context(m),
              LAMBDA m1 :
                  Return([m1 EXCEPT !.heap[self]._context = m1.ret.i], m1.ret))
    ELSE Return(m, RetObj("BrowserContext", m.heap[self]._context))

\* the page is made in a context that is not cached
BrowseTheWeb_page_uncached_context(m, self) ==
    IF m.heap[self]._page = None
    THEN Then(IF m.heap[self]._context = None
              THEN Browser_new_context(m)
              ELSE Return(m, RetObj("BrowserContext", m.heap[self]._context)),
              LAMBDA m1 :
         Then(Context_new_page(m1, m1.ret.i), LAMBDA m2 :
         Return([m2 EXCEPT !.heap[self]._page = m2.ret.i], m2.ret)))
    ELSE Return(m, RetObj("Page", m.heap[self]._page))

BrowseTheWeb_page(m, self) ==
    IF m.heap[self]._page = None
    THEN Then(BrowseTheWeb_context(m, self), LAMBDA m1 :
         Then(Context_new_page(m1, m1.ret.i), LAMBDA m2 :
         Return([m2 EXCEPT !.heap[self]._page = m2.ret.i], m2.ret)))
    ELSE Return(m, RetObj("Page", m.heap[self]._page))

BrowseTheWeb_new_page(m, self) ==
    Then(BrowseTheWeb_context(m, self), LAMBDA m1 :
    Context_new_page(m1, m1.ret.i))

\* the cached context is dropped with the page
close_page_clearing_context(m, self) ==
    IF m.heap[self]._page # None
    THEN Then(Page_close(m, m.heap[self]._page), LAMBDA m1 :
         Return([m1 EXCEPT !.heap[self]._page = None,
                           !.heap[self]._context = None], RetNone))
    ELSE Return(m, RetNone)

close_page(m, self) ==
    IF m.heap[self]._page # None
    THEN Then(Page_close(m, m.heap[self]._page), LAMBDA m1 :
         Return([m1 EXCEPT !.heap[self]._page = None], RetNone))
    ELSE Return(m, RetNone)

\* only an ability bound to an actor may close its context
close_context_bound_only(m, self) ==
    IF m.heap[self]._context # None /\ m.heap[self]._actor # None
    THEN Then(Context_close(m, m.heap[self]._context), LAMBDA m1 :
         Return([m1 EXCEPT !.heap[self]._context = None,
                           !.heap[self]._page = None], RetNone))
    ELSE Return(m, RetNone)

\* the cached page is left in place
close_context_keeps_page(m, self) ==
    IF m.heap[self]._context # None
    THEN Then(Context_close(m, m.heap[self]._context), LAMBDA m1 :
         Return([m1 EXCEPT !.heap[self]._context = None], RetNone))
    ELSE Return(m, RetNone)

close_context(m, self) ==
    IF m.heap[self]._context # None
    THEN Then(Context_close(m, m.heap[self]._context), LAMBDA m1 :
         Return([m1 EXCEPT !.heap[self]._context = None,
                           !.heap[self]._page = None], RetNone))
    ELSE Return(m, RetNone)

\* the caches are cleared as close_context does
close_browser_clearing_caches(m, self) ==
    IF m.heap[self]._browser # None
    THEN Then(Browser_close(m), LAMBDA m1 :
         Return([m1 EXCEPT !.heap[self]._context = None,
                           !.heap[self]._page = None], RetNone))
    ELSE Return(m, RetNone)

close_browser(m, self) ==
    IF m.heap[self]._browser # None
    THEN Then(Browser_close(m), LAMBDA m1 : Return(m1, RetNone))
    ELSE Return(m, RetNone)

-----------------------------------------------------------------------------
(* Actor (src/screenplay/base.py) *)

has_ability_to(m, self, ability_class) ==
    Return(m, RetBool(ability_class \in DOMAIN m.actors[self]._abilities))

\* dict.get: None for a missing ability, no error
ability_to_get(m, self, ability_class) ==
    Return(Log(m, Event("ability_to", self, "", ability_class, NoOptions,
                        NoPerformable, 0)),
           IF ability_class \in DOMAIN m.actors[self]._abilities
           THEN RetObj(ability_class, m.actors[self]._abilities[ability_class])
           ELSE RetNone)

\* dict.pop: the ability looked up is taken out of the actor
ability_to_pop(m, self, ability_class) ==
    LET ev == Event("ability_to", self, "", ability_class, NoOptions, NoPerformable, 0)
    IN  IF ~(has_ability_to(m, self, ability_class).ret.i = 1)
        THEN Raise(Log(m, [ev EXCEPT !.raises = TRUE]),
                   [NoExc EXCEPT !.type = "ValueError",
                                 !.actor = m.actors[self].name,
                                 !.kind = ability_class,
                                 !.at = Len(m.trace) + 1])
        ELSE Return(Log([m EXCEPT !.actors[self]._abilities =
                                      [k \in DOMAIN @ \ {ability_class} |-> @[k]]],
                        ev),
                    RetObj(ability_class, m.actors[self]._abilities[ability_class]))

\* the call is logged: Actor.ability_to is what the interactions are
\* tested to call
ability_to(m, self, ability_class) ==
    LET ev == Event("ability_to", self, "", ability_class, NoOptions, NoPerformable, 0)
    IN  IF ~(has_ability_to(m, self, ability_class).ret.i = 1)
        THEN Raise(Log(m, [ev EXCEPT !.raises = TRUE]),
                   [NoExc EXCEPT !.type = "ValueError",
                                 !.actor = m.actors[self].name,
                                 !.kind = ability_class,
                                 !.at = Len(m.trace) + 1])
        ELSE Return(Log(m, ev),
                    RetObj(ability_class, m.actors[self]._abilities[ability_class]))

\* dict.setdefault: the first ability granted for a class stays
RECURSIVE who_can_keeps_first(_, _, _)
who_can_keeps_first(m, self, abilities) ==
    IF abilities = <<>>
    THEN Return(m, RetObj("Actor", self))
    ELSE Then(as_actor(m, Head(abilities), self), LAMBDA m1 :
         who_can_keeps_first(
             [m1 EXCEPT !.actors[self]._abilities =
                            @ @@ (m.heap[Head(abilities)].class :> m1.ret.i)],
             self, Tail(abilities)))

RECURSIVE who_can(_, _, _)
who_can(m, self, abilities) ==
    IF abilities = <<>>
    THEN Return(m, RetObj("Actor", self))
    ELSE Then(as_actor(m, Head(abilities), self), LAMBDA m1 :
         who_can([m1 EXCEPT !.actors[self]._abilities =
                                (m.heap[Head(abilities)].class :> m1.ret.i) @@ @],
                 self, Tail(abilities)))

-----------------------------------------------------------------------------
(* Interactions (src/screenplay/interactions) *)

\* dict.get(key, default)
Get(options, key, default) ==
    IF \E kv \in options : kv[1] = key
    THEN (CHOOSE kv \in options : kv[1] = key)[2]
    ELSE default

\* Python truth value of an option value
Truthy(v) == v \notin {"False", "None", "0", ""}

\* returns as soon as goto has returned
Navigate_perform_as_no_load_wait(m, self, actor) ==
    Then(ability_to(m, actor, "BrowseTheWeb"), LAMBDA m1 :
    Then(BrowseTheWeb_page(m1, m1.ret.i), LAMBDA m2 :
    Then(Page_goto(m2, m2.ret.i, self.url, self.options), LAMBDA m3 :
    Return(m3, RetNone))))

Navigate_perform_as(m, self, actor) ==
    Then(ability_to(m, actor, "BrowseTheWeb"), LAMBDA m1 :
    Then(BrowseTheWeb_page(m1, m1.ret.i), LAMBDA m2 :
    Then(Page_goto(m2, m2.ret.i, self.url, self.options), LAMBDA m3 :
    Then(Page_wait_for_load_state(m3, m2.ret.i, "networkidle"), LAMBDA m4 :
    Return(m4, RetNone)))))

\* clicks at once, without waiting for the element
Click_perform_as_no_wait(m, self, actor) ==
    Then(ability_to(m, actor, "BrowseTheWeb"), LAMBDA m1 :
    Then(BrowseTheWeb_page(m1, m1.ret.i), LAMBDA m2 :
    Then(Page_click(m2, m2.ret.i, self.locator, self.options), LAMBDA m4 :
    Return(m4, RetNone))))

\* a failure of the wait or of the click is caught and raised again as an
\* InteractionError that names the cause
Click_perform_as_wrapping_errors(m, self, actor) ==
    Then(ability_to(m, actor, "BrowseTheWeb"), LAMBDA m1 :
    Then(BrowseTheWeb_page(m1, m1.ret.i), LAMBDA m2 :
    Try(Then(Page_wait_for_selector(m2, m2.ret.i, self.locator, "visible"),
             LAMBDA m3 :
        Then(Page_click(m3, m2.ret.i, self.locator, self.options), LAMBDA m4 :
        Return(m4, RetNone))),
        LAMBDA e : Raise(e, [e.exc EXCEPT !.type = "InteractionError",
                                          !.kind = e.exc.type]))))

\* a failed wait is reported as an ElementNotFoundError
Click_perform_as_element_not_found(m, self, actor) ==
    Then(ability_to(m, actor, "BrowseTheWeb"), LAMBDA m1 :
    Then(BrowseTheWeb_page(m1, m1.ret.i), LAMBDA m2 :
    Then(Try(Page_wait_for_selector(m2, m2.ret.i, self.locator, "visible"),
             LAMBDA e : Raise(e, [e.exc EXCEPT !.type = "ElementNotFoundError"])),
         LAMBDA m3 :
    Then(Page_click(m3, m2.ret.i, self.locator, self.options), LAMBDA m4 :
    Return(m4, RetNone)))))

Click_perform_as(m, self, actor) ==
    Then(ability_to(m, actor, "BrowseTheWeb"), LAMBDA m1 :
    Then(BrowseTheWeb_page(m1, m1.ret.i), LAMBDA m2 :
    Then(Page_wait_for_selector(m2, m2.ret.i, self.locator, "visible"), LAMBDA m3 :
    Then(Page_click(m3, m2.ret.i, self.locator, self.options), LAMBDA m4 :
    Return(m4, RetNone)))))

\* the whole options dict goes to page.type, "clear" included
Type_perform_as_forwarding_clear(m, self, actor) ==
    Then(ability_to(m, actor, "BrowseTheWeb"), LAMBDA m1 :
    Then(BrowseTheWeb_page(m1, m1.ret.i), LAMBDA m2 :
    Then(Page_wait_for_selector(m2, m2.ret.i, self.locator, "visible"), LAMBDA m3 :
    Then(IF Truthy(Get(self.options, "clear", "True"))
         THEN Page_fill(m3, m2.ret.i, self.locator, "")
         ELSE m3, LAMBDA m4 :
    Then(Page_type(m4, m2.ret.i, self.locator, self.text, self.options), LAMBDA m5 :
    Return(m5, RetNone))))))

Type_perform_as(m, self, actor) ==
    Then(ability_to(m, actor, "BrowseTheWeb"), LAMBDA m1 :
    Then(BrowseTheWeb_page(m1, m1.ret.i), LAMBDA m2 :
    Then(Page_wait_for_selector(m2, m2.ret.i, self.locator, "visible"), LAMBDA m3 :
    Then(IF Truthy(Get(self.options, "clear", "True"))
         THEN Page_fill(m3, m2.ret.i, self.locator, "")
         ELSE m3, LAMBDA m4 :
    Then(Page_type(m4, m2.ret.i, self.locator, self.text,
                   {kv \in self.options : kv[1] # "clear"}), LAMBDA m5 :
    Return(m5, RetNone))))))

-----------------------------------------------------------------------------
(* Questions (src/screenplay/questions) *)

\* no try / except around is_visible
Visibility_answered_by_propagating(m, self, actor) ==
    Then(ability_to(m, actor, "BrowseTheWeb"), LAMBDA m1 :
    Then(BrowseTheWeb_page(m1, m1.ret.i), LAMBDA m2 :
    Page_is_visible(m2, m2.ret.i, self.locator)))

Visibility_answered_by(m, self, actor) ==
    Then(ability_to(m, actor, "BrowseTheWeb"), LAMBDA m1 :
    Then(BrowseTheWeb_page(m1, m1.ret.i), LAMBDA m2 :
    Try(Page_is_visible(m2, m2.ret.i, self.locator),
        LAMBDA m3 : Return([m3 EXCEPT !.exc = NoExc], RetBool(FALSE)))))

Presence_answered_by(m, self, actor) ==
    Then(ability_to(m, actor, "BrowseTheWeb"), LAMBDA m1 :
    Then(BrowseTheWeb_page(m1, m1.ret.i), LAMBDA m2 :
    Try(Then(Page_query_selector(m2, m2.ret.i, self.locator), LAMBDA m3 :
             Return(m3, RetBool(m3.ret # RetNone))),
        LAMBDA m3 : Return([m3 EXCEPT !.exc = NoExc], RetBool(FALSE)))))

\* what text_content gave is returned as it is, None included
Text_answered_by_raw(m, self, actor) ==
    Then(ability_to(m, actor, "BrowseTheWeb"), LAMBDA m1 :
    Then(BrowseTheWeb_page(m1, m1.ret.i), LAMBDA m2 :
    Then(Page_wait_for_selector(m2, m2.ret.i, self.locator, "visible"), LAMBDA m3 :
    Page_text_content(m3, m2.ret.i, self.locator))))

Text_answered_by(m, self, actor) ==
    Then(ability_to(m, actor, "BrowseTheWeb"), LAMBDA m1 :
    Then(BrowseTheWeb_page(m1, m1.ret.i), LAMBDA m2 :
    Then(Page_wait_for_selector(m2, m2.ret.i, self.locator, "visible"), LAMBDA m3 :
    Then(Page_text_content(m3, m2.ret.i, self.locator), LAMBDA m4 :
    Return(m4, IF m4.ret = RetNone \/ m4.ret = RetStr("")
               THEN RetStr("") ELSE m4.ret)))))

CurrentUrl_answered_by(m, self, actor) ==
    Then(ability_to(m, actor, "BrowseTheWeb"), LAMBDA m1 :
    Then(BrowseTheWeb_page(m1, m1.ret.i), LAMBDA m2 :
    Page_url(m2, m2.ret.i)))

PageTitle_answered_by(m, self, actor) ==
    Then(ability_to(m, actor, "BrowseTheWeb"), LAMBDA m1 :
    Then(BrowseTheWeb_page(m1, m1.ret.i), LAMBDA m2 :
    Page_title(m2, m2.ret.i)))

answered_by(m, self, actor) ==
    CASE self.type = "Visibility" -> Visibility_answered_by(m, self, actor)
      [] self.type = "Presence" -> Presence_answered_by(m, self, actor)
      [] self.type = "Text" -> Text_answered_by(m, self, actor)
      [] self.type = "CurrentUrl" -> CurrentUrl_answered_by(m, self, actor)
      [] self.type = "PageTitle" -> PageTitle_answered_by(m, self, actor)

\* the question is answered twice and the second answer is returned
asks_answering_twice(m, self, question) ==
    Then(answered_by(Log(m, Event("answered_by", self, question.locator,
                                  question.type, NoOptions, NoPerformable, 0)),
                     question, self),
         LAMBDA m1 :
             answered_by(Log(m1, Event("answered_by", self, question.locator,
                                       question.type, NoOptions, NoPerformable, 0)),
                         question, self))

asks(m, self, question) ==
    answered_by(Log(m, Event("answered_by", self, question.locator, question.type,
                             NoOptions, NoPerformable, 0)),
                question, self)

-----------------------------------------------------------------------------
(* Tasks (src/screenplay/tasks/login.py) and Actor.attempts_to *)

RECURSIVE attempts_to(_, _, _, _)

\* the password is typed before the username
Login_perform_as_password_first(m, self, actor, depth) ==
    Then(attempts_to(m, actor,
             <<Navigate(LoginUrl, NoOptions),
               Type(self.password, PASSWORD_FIELD, NoOptions),
               Type(self.username, USERNAME_FIELD, NoOptions),
               Click(SUBMIT_BUTTON, NoOptions)>>, depth + 1),
         LAMBDA m1 : Return(m1, RetNone))

Login_perform_as(m, self, actor, depth) ==
    Then(attempts_to(m, actor,
             <<Navigate(LoginUrl, NoOptions),
               Type(self.username, USERNAME_FIELD, NoOptions),
               Type(self.password, PASSWORD_FIELD, NoOptions),
               Click(SUBMIT_BUTTON, NoOptions)>>, depth + 1),
         LAMBDA m1 : Return(m1, RetNone))

NavigateToLoginPage_perform_as(m, self, actor, depth) ==
    Then(attempts_to(m, actor, <<Navigate(LoginUrl, NoOptions)>>, depth + 1),
         LAMBDA m1 : Return(m1, RetNone))

\* a failure of a step is swallowed by the task
EnterCredentials_perform_as_swallowing(m, self, actor, depth) ==
    Try(Then(attempts_to(m, actor,
                 <<Type(self.username, USERNAME_FIELD, NoOptions),
                   Type(self.password, PASSWORD_FIELD, NoOptions)>>, depth + 1),
             LAMBDA m1 : Return(m1, RetNone)),
        LAMBDA e : Return([e EXCEPT !.exc = NoExc], RetNone))

EnterCredentials_perform_as(m, self, actor, depth) ==
    Then(attempts_to(m, actor,
             <<Type(self.username, USERNAME_FIELD, NoOptions),
               Type(self.password, PASSWORD_FIELD, NoOptions)>>, depth + 1),
         LAMBDA m1 : Return(m1, RetNone))

SubmitLoginForm_perform_as(m, self, actor, depth) ==
    Then(attempts_to(m, actor, <<Click(SUBMIT_BUTTON, NoOptions)>>, depth + 1),
         LAMBDA m1 : Return(m1, RetNone))

\* task.perform_as(actor), dispatched on the class of task; depth is the
\* number of attempts_to frames below this one
perform_as(m, self, actor, depth) ==
    CASE self.type = "Navigate" -> Navigate_perform_as(m, self, actor)
      [] self.type = "Click" -> Click_perform_as(m, self, actor)
      [] self.type = "Type" -> Type_perform_as(m, self, actor)
      [] self.type = "Login" -> Login_perform_as(m, self, actor, depth)
      [] self.type = "NavigateToLoginPage" ->
             NavigateToLoginPage_perform_as(m, self, actor, depth)
      [] self.type = "EnterCredentials" ->
             EnterCredentials_perform_as(m, self, actor, depth)
      [] self.type = "SubmitLoginForm" ->
             SubmitLoginForm_perform_as(m, self, actor, depth)

\* a failing task is ignored and the next one is performed
RECURSIVE attempts_to_ignoring_failures(_, _, _, _)
attempts_to_ignoring_failures(m, self, tasks, depth) ==
    IF tasks = <<>>
    THEN Return(m, RetObj("Actor", self))
    ELSE attempts_to_ignoring_failures(
             [perform_as(Log(m, Event("perform_as", self, "", "", NoOptions,
                                      Head(tasks), depth)),
                         Head(tasks), self, depth) EXCEPT !.exc = NoExc],
             self, Tail(tasks), depth)

\* nothing is returned once the tasks are performed
RECURSIVE attempts_to_returning_none(_, _, _, _)
attempts_to_returning_none(m, self, tasks, depth) ==
    IF tasks = <<>>
    THEN Return(m, RetNone)
    ELSE Then(perform_as(Log(m, Event("perform_as", self, "", "", NoOptions,
                                      Head(tasks), depth)),
                         Head(tasks), self, depth),
              LAMBDA m1 : attempts_to_returning_none(m1, self, Tail(tasks), depth))

attempts_to(m, self, tasks, depth) ==
    IF tasks = <<>>
    THEN Return(m, RetObj("Actor", self))
    ELSE Then(perform_as(Log(m, Event("perform_as", self, "", "", NoOptions,
                                      Head(tasks), depth)),
                         Head(tasks), self, depth),
              LAMBDA m1 : attempts_to(m1, self, Tail(tasks), depth))

-----------------------------------------------------------------------------
(* The test code: one action per call it makes *)

NoFault == [at |-> 0, type |-> ""]

FaultTypes == {"TimeoutError"}

Envs ==
    {[visible |-> v, present |-> v, content |-> c, title |-> "Test Login"] :
        v \in BOOLEAN, c \in {"None", "Congratulations"}}

DefaultEnv == CHOOSE e \in Envs : e.visible /\ e.content = "Congratulations"

\* the machine at the start of a call
Machine(fault, env) ==
    [actors |-> actors, heap |-> heap, driver |-> driver, trace |-> <<>>,
     exc |-> NoExc, ret |-> RetNone, fault |-> fault, env |-> env]

NoCall ==
    [op |-> "", self |-> 0, cls |-> "", abilities |-> <<>>, tasks |-> <<>>,
     question |-> Question("", ""), env |-> DefaultEnv, trace |-> <<>>,
     exc |-> NoExc, ret |-> RetNone]

\* B is the scope of a run: the actors at work, the abilities one who_can
\* call is given at most, and the objects created at most
\* and the failures the environment injects into driver calls
Bounds(actorIds, grants, objects, faults) ==
    [actors |-> actorIds, grants |-> grants, objects |-> objects, faults |-> faults]

Objects(m) == Len(m.heap) + Len(m.driver.contexts) + Len(m.driver.pages)

WithinBounds(m, B) == Objects(m) <= B.objects

\* the test code is between two calls
Idle == lastCall.op = ""

\* the state after the call: what the machine holds when the call ends
Commit(m, call, B) ==
    /\ Idle
    /\ WithinBounds(m, B)
    /\ actors' = m.actors
    /\ heap' = m.heap
    /\ driver' = m.driver
    /\ lastCall' = [call EXCEPT !.trace = m.trace, !.exc = m.exc, !.ret = m.ret]
    /\ UNCHANGED retrying

\* the faults the environment can inject into a call: none, or one at any
\* of the driver calls the call makes when nothing fails
Faults(n, B) == {NoFault} \cup [at : 1..n, type : B.faults]

Abilities == DOMAIN heap
Pages == DOMAIN driver.pages

\* the context and page fixtures: a new context and a page in it
page_fixture(B) ==
    /\ driver.browserOpen
    /\ Commit(Then(Browser_new_context(Machine(NoFault, DefaultEnv)),
                   LAMBDA m1 : Context_new_page(m1, m1.ret.i)),
              [NoCall EXCEPT !.op = "page_fixture"], B)
    /\ UNCHANGED closedBy

Using(B) ==
    /\ Commit(using(Machine(NoFault, DefaultEnv), 1), [NoCall EXCEPT !.op = "using"], B)
    /\ UNCHANGED closedBy

UsingPage(B) ==
    \E page \in Pages :
        /\ PageAlive(driver, page)
        /\ Commit(using_page(Machine(NoFault, DefaultEnv), page),
                  [NoCall EXCEPT !.op = "using_page", !.self = page], B)
        /\ UNCHANGED closedBy

WhoCan(B) ==
    \E a \in B.actors, n \in 0..B.grants : \E abilities \in [1..n -> Abilities] :
        /\ Idle
        /\ Len(heap) + Len(driver.contexts) + Len(driver.pages) + n <= B.objects
        /\ Commit(who_can(Machine(NoFault, DefaultEnv), a, abilities),
                  [NoCall EXCEPT !.op = "who_can", !.self = a,
                                 !.abilities = abilities], B)
        /\ UNCHANGED closedBy

HasAbilityTo(B) ==
    \E a \in B.actors, cls \in AbilityClasses :
        /\ Commit(has_ability_to(Machine(NoFault, DefaultEnv), a, cls),
                  [NoCall EXCEPT !.op = "has_ability_to", !.self = a, !.cls = cls], B)
        /\ UNCHANGED closedBy

AbilityTo(B) ==
    \E a \in B.actors, cls \in AbilityClasses :
        /\ Commit(ability_to(Machine(NoFault, DefaultEnv), a, cls),
                  [NoCall EXCEPT !.op = "ability_to", !.self = a, !.cls = cls], B)
        /\ UNCHANGED closedBy

ContextAccess(B) ==
    \E x \in Abilities :
        \E f \in Faults(Len(BrowseTheWeb_context(Machine(NoFault, DefaultEnv), x).trace), B) :
            /\ Commit(BrowseTheWeb_context(Machine(f, DefaultEnv), x),
                      [NoCall EXCEPT !.op = "context", !.self = x], B)
            /\ UNCHANGED closedBy

PageAccess(B) ==
    \E x \in Abilities :
        \E f \in Faults(Len(BrowseTheWeb_page(Machine(NoFault, DefaultEnv), x).trace), B) :
            /\ Commit(BrowseTheWeb_page(Machine(f, DefaultEnv), x),
                      [NoCall EXCEPT !.op = "page", !.self = x], B)
            /\ UNCHANGED closedBy

NewPage(B) ==
    \E x \in Abilities :
        \E f \in Faults(Len(BrowseTheWeb_new_page(Machine(NoFault, DefaultEnv), x).trace), B) :
            /\ Commit(BrowseTheWeb_new_page(Machine(f, DefaultEnv), x),
                      [NoCall EXCEPT !.op = "new_page", !.self = x], B)
            /\ UNCHANGED closedBy

ClosePage(B) ==
    \E x \in Abilities :
        \E f \in Faults(Len(close_page(Machine(NoFault, DefaultEnv), x).trace), B) :
            /\ Commit(close_page(Machine(f, DefaultEnv), x),
                      [NoCall EXCEPT !.op = "close_page", !.self = x], B)
            /\ UNCHANGED closedBy

CloseContext(B) ==
    \E x \in Abilities :
        \E f \in Faults(Len(close_context(Machine(NoFault, DefaultEnv), x).trace), B) :
            LET m == close_context(Machine(f, DefaultEnv), x)
            IN  /\ Commit(m, [NoCall EXCEPT !.op = "close_context", !.self = x], B)
                /\ closedBy' =
                       IF heap[x]._context # None /\ ~Raised(m)
                       THEN closedBy \cup {<<x, heap[x]._context>>}
                       ELSE closedBy

CloseBrowser(B) ==
    \E x \in Abilities :
        \E f \in Faults(Len(close_browser(Machine(NoFault, DefaultEnv), x).trace), B) :
            /\ Commit(close_browser(Machine(f, DefaultEnv), x),
                      [NoCall EXCEPT !.op = "close_browser", !.self = x], B)
            /\ UNCHANGED closedBy

\* the interactions and tasks the test code passes to attempts_to
Interactions ==
    {Navigate(LoginUrl, NoOptions), Click(SUBMIT_BUTTON, NoOptions),
     Type("student", USERNAME_FIELD, NoOptions)}

\* the options dicts the test code gives to Type and Navigate
TypeOptions ==
    {{<<"clear", "False">>}, {<<"delay", "100">>},
     {<<"clear", "True">>, <<"delay", "100">>},
     {<<"clear", "False">>, <<"delay", "100">>, <<"timeout", "5000">>}}

TaskLists ==
    {<<>>} \cup {<<p>> : p \in Interactions}
        \cup {<<Type("student", USERNAME_FIELD, o)>> : o \in TypeOptions}
        \cup {<<Navigate(LoginUrl, {<<"timeout", "5000">>})>>}
        \cup {<<Navigate(LoginUrl, NoOptions), Click(SUBMIT_BUTTON, NoOptions)>>,
              <<Click(SUBMIT_BUTTON, NoOptions), Navigate(LoginUrl, NoOptions)>>,
              <<Click(SUBMIT_BUTTON, NoOptions), Click(SUBMIT_BUTTON, NoOptions)>>,
              <<Navigate(LoginUrl, NoOptions),
                Type("student", USERNAME_FIELD, NoOptions),
                Click(SUBMIT_BUTTON, NoOptions)>>,
              <<Login("student", "Password123")>>,
              <<NavigateToLoginPage, EnterCredentials("student", "Password123"),
                SubmitLoginForm>>,
              <<SubmitLoginForm, Click(SUBMIT_BUTTON, NoOptions)>>}

AttemptsTo(B) ==
    \E a \in B.actors, tasks \in TaskLists :
        \E f \in Faults(Len(attempts_to(Machine(NoFault, DefaultEnv), a, tasks, 0).trace), B) :
            /\ Commit(attempts_to(Machine(f, DefaultEnv), a, tasks, 0),
                      [NoCall EXCEPT !.op = "attempts_to", !.self = a,
                                     !.tasks = tasks], B)
            /\ UNCHANGED closedBy

Questions ==
    {Question("Visibility", ERROR_MESSAGE), Question("Presence", ERROR_MESSAGE),
     Question("Text", ERROR_MESSAGE), Question("CurrentUrl", ""),
     Question("PageTitle", "")}

Asks(B) ==
    \E a \in B.actors, question \in Questions, env \in Envs :
        \E f \in Faults(Len(asks(Machine(NoFault, env), a, question).trace), B) :
            /\ Commit(asks(Machine(f, env), a, question),
                      [NoCall EXCEPT !.op = "asks", !.self = a,
                                     !.question = question, !.env = env], B)
            /\ UNCHANGED closedBy

-----------------------------------------------------------------------------
(* Retry utilities (src/utils/retry.py)                                    *)
(*                                                                         *)
(* The wrapped function is given by what each of its invocations does:     *)
(* func[k] is "return" when the k-th invocation returns (its result is k), *)
(* else the class of the exception it raises.  Delays are whole seconds.   *)

\* an exception instance: its class, who raised it and in which attempt
Exception(type, by, attempt) == [type |-> type, by |-> by, attempt |-> attempt]

\* last_exception = None
NoException == Exception("", "", 0)

\* isinstance(e, cls), for the builtin exception classes
IsInstance(e, cls) ==
    cls \in CASE e.type = "ValueError" -> {"ValueError", "Exception", "BaseException"}
              [] e.type = "TimeoutError" ->
                     {"TimeoutError", "OSError", "Exception", "BaseException"}
              [] e.type = "RuntimeError" ->
                     {"RuntimeError", "Exception", "BaseException"}
              [] e.type = "RetryError" -> {"RetryError", "Exception", "BaseException"}
              [] OTHER -> {}

\* the exceptions argument: one class, or a tuple of classes
OneClass(cls) == [tuple |-> FALSE, classes |-> <<cls>>]
TupleOf(classes) == [tuple |-> TRUE, classes |-> classes]

\* every exception is caught
Matches_anything(e, exceptions) == TRUE

\* `except exceptions as e` catches e
Matches(e, exceptions) ==
    \E i \in DOMAIN exceptions.classes : IsInstance(e, exceptions.classes[i])

\* the calls a retried call makes: the wrapped function, the callback, sleep
Invoke(attempt) ==
    [call |-> "invoke", attempt |-> attempt, exc |-> NoException, seconds |-> 0]
OnRetry(attempt, e) ==
    [call |-> "on_retry", attempt |-> attempt, exc |-> e, seconds |-> 0]
Sleep(seconds) ==
    [call |-> "sleep", attempt |-> 0, exc |-> NoException, seconds |-> seconds]

\* how a retried call ends, with the calls it has made
Returned(calls, value) ==
    [calls |-> calls, returned |-> TRUE, value |-> value, exc |-> NoException,
     message |-> "", last_exception |-> NoException]
Propagated(calls, e) ==
    [calls |-> calls, returned |-> FALSE, value |-> None, exc |-> e,
     message |-> "", last_exception |-> NoException]
RetryError(calls, message, last_exception) ==
    [calls |-> calls, returned |-> FALSE, value |-> None,
     exc |-> Exception("RetryError", "retry", 0),
     message |-> message, last_exception |-> last_exception]

\* the callbacks given as on_retry: one that returns, one that raises
Recording == 1
Raising == 2

\* the closure of the decorator
retry(max_attempts, delay, backoff, exceptions, on_retry) ==
    [max_attempts |-> max_attempts, delay |-> delay, backoff |-> backoff,
     exceptions |-> exceptions, on_retry |-> on_retry]

\* retry() with no argument
retry_defaults == retry(3, 1, 2, OneClass("Exception"), None)

RECURSIVE wrapper_for(_, _, _)

\* time.sleep(current_delay); current_delay *= backoff; next attempt
wrapper_sleep(c, func, l) ==
    IF l.current_delay < 0
    THEN Propagated(Append(l.calls, Sleep(l.current_delay)),
                    Exception("ValueError", "sleep", l.attempt))
    ELSE wrapper_for(c, func,
             [l EXCEPT !.attempt = @ + 1,
                       !.current_delay = @ * c.backoff,
                       !.calls = Append(@, Sleep(l.current_delay))])

\* if on_retry: on_retry(attempt, e)
wrapper_on_retry(c, func, l) ==
    IF c.on_retry = None
    THEN wrapper_sleep(c, func, l)
    ELSE IF c.on_retry = Raising
    THEN Propagated(Append(l.calls, OnRetry(l.attempt, l.last_exception)),
                    Exception("RuntimeError", "on_retry", l.attempt))
    ELSE wrapper_sleep(c, func,
             [l EXCEPT !.calls = Append(@, OnRetry(l.attempt, l.last_exception))])

\* the last attempt is followed by the callback and a sleep as well
wrapper_except_retrying_last(c, func, l, e) ==
    IF ~Matches(e, c.exceptions)
    THEN Propagated(l.calls, e)
    ELSE wrapper_on_retry(c, func, [l EXCEPT !.last_exception = e])

\* the func call raised e
wrapper_except(c, func, l, e) ==
    IF ~Matches(e, c.exceptions)
    THEN Propagated(l.calls, e)
    ELSE IF l.attempt = c.max_attempts
    THEN RetryError(l.calls, "Function func failed after max_attempts attempts", e)
    ELSE wrapper_on_retry(c, func, [l EXCEPT !.last_exception = e])

\* for attempt in range(1, max_attempts + 1), and the raise after the loop
wrapper_for(c, func, l) ==
    IF l.attempt > c.max_attempts
    THEN RetryError(l.calls, "Unexpected error in retry logic for func",
                    l.last_exception)
    ELSE IF func[l.attempt] = "return"
    THEN Returned(Append(l.calls, Invoke(l.attempt)), l.attempt)
    ELSE wrapper_except(c, func, [l EXCEPT !.calls = Append(@, Invoke(l.attempt))],
                        Exception(func[l.attempt], "func", l.attempt))

\* retry(...)(func)(): c is the closure of the decorator
wrapper(c, func) ==
    wrapper_for(c, func, [attempt |-> 1, current_delay |-> c.delay,
                          last_exception |-> NoException, calls |-> <<>>])

\* RetryableAction(action)
RetryableAction ==
    [max_attempts |-> 3, delay |-> 1, backoff |-> 2,
     exceptions |-> TupleOf(<<"Exception">>), on_retry_callback |-> None]

with_max_attempts(self, attempts) == [self EXCEPT !.max_attempts = attempts]
with_delay(self, delay) == [self EXCEPT !.delay = delay]
with_backoff(self, backoff) == [self EXCEPT !.backoff = backoff]
on_exceptions(self, exceptions) == [self EXCEPT !.exceptions = TupleOf(exceptions)]
RetryableAction_on_retry(self, callback) == [self EXCEPT !.on_retry_callback = callback]

with_retry == RetryableAction

RECURSIVE execute_for(_, _, _)

\* the delay stays what it was
execute_sleep_constant(self, action, l) ==
    IF l.current_delay < 0
    THEN Propagated(Append(l.calls, Sleep(l.current_delay)),
                    Exception("ValueError", "sleep", l.attempt))
    ELSE execute_for(self, action,
             [l EXCEPT !.attempt = @ + 1,
                       !.calls = Append(@, Sleep(l.current_delay))])

execute_sleep(self, action, l) ==
    IF l.current_delay < 0
    THEN Propagated(Append(l.calls, Sleep(l.current_delay)),
                    Exception("ValueError", "sleep", l.attempt))
    ELSE execute_for(self, action,
             [l EXCEPT !.attempt = @ + 1,
                       !.current_delay = @ * self.backoff,
                       !.calls = Append(@, Sleep(l.current_delay))])

execute_on_retry(self, action, l) ==
    IF self.on_retry_callback = None
    THEN execute_sleep(self, action, l)
    ELSE IF self.on_retry_callback = Raising
    THEN Propagated(Append(l.calls, OnRetry(l.attempt, l.last_exception)),
                    Exception("RuntimeError", "on_retry", l.attempt))
    ELSE execute_sleep(self, action,
             [l EXCEPT !.calls = Append(@, OnRetry(l.attempt, l.last_exception))])

execute_except(self, action, l, e) ==
    IF ~Matches(e, self.exceptions)
    THEN Propagated(l.calls, e)
    ELSE IF l.attempt = self.max_attempts
    THEN RetryError(l.calls, "Action failed after max_attempts attempts", e)
    ELSE execute_on_retry(self, action, [l EXCEPT !.last_exception = e])

execute_for(self, action, l) ==
    IF l.attempt > self.max_attempts
    THEN RetryError(l.calls, "Unexpected error in retry logic", l.last_exception)
    ELSE IF action[l.attempt] = "return"
    THEN Returned(Append(l.calls, Invoke(l.attempt)), l.attempt)
    ELSE execute_except(self, action,
                        [l EXCEPT !.calls = Append(@, Invoke(l.attempt))],
                        Exception(action[l.attempt], "func", l.attempt))

\* RetryableAction.execute
execute(self, action) ==
    execute_for(self, action, [attempt |-> 1, current_delay |-> self.delay,
                               last_exception |-> NoException, calls |-> <<>>])

-----------------------------------------------------------------------------
(* The callers of the retry utilities *)

\* what an invocation of the wrapped function does
Results == {"return", "ValueError", "TimeoutError"}

\* the wrapped functions: what each of their first MaxAttempts invocations does
Funcs == [1..MaxAttempts -> Results]

\* the arguments callers give
Attempts == 0..MaxAttempts
Delays == (0 - 1)..MaxDelay
Backoffs == 1..MaxBackoff
ExceptionTuples == {<<>>, <<"Exception">>, <<"ValueError">>}
Callbacks == {None, Recording, Raising}

\* no call of the wrapper or of execute has been made yet
NoRetried == [op |-> "", func |-> <<>>, end |-> Returned(<<>>, None)]

\* kind "retry": obj is the closure of a decorated function;
\* kind "RetryableAction": obj is the RetryableAction
Retrying(kind, obj) == [kind |-> kind, obj |-> obj, call |-> NoRetried]

RetryIdle == retrying.call.op = ""

WithMaxAttempts ==
    \E attempts \in Attempts :
        /\ RetryIdle /\ retrying.kind = "RetryableAction"
        /\ retrying' = [retrying EXCEPT !.obj = with_max_attempts(@, attempts)]
        /\ UNCHANGED <<actors, heap, driver, closedBy, lastCall>>

WithDelay ==
    \E delay \in Delays :
        /\ RetryIdle /\ retrying.kind = "RetryableAction"
        /\ retrying' = [retrying EXCEPT !.obj = with_delay(@, delay)]
        /\ UNCHANGED <<actors, heap, driver, closedBy, lastCall>>

WithBackoff ==
    \E backoff \in Backoffs :
        /\ RetryIdle /\ retrying.kind = "RetryableAction"
        /\ retrying' = [retrying EXCEPT !.obj = with_backoff(@, backoff)]
        /\ UNCHANGED <<actors, heap, driver, closedBy, lastCall>>

OnExceptions ==
    \E exceptions \in ExceptionTuples :
        /\ RetryIdle /\ retrying.kind = "RetryableAction"
        /\ retrying' = [retrying EXCEPT !.obj = on_exceptions(@, exceptions)]
        /\ UNCHANGED <<actors, heap, driver, closedBy, lastCall>>

OnRetryCallback ==
    \E callback \in Callbacks :
        /\ RetryIdle /\ retrying.kind = "RetryableAction"
        /\ retrying' = [retrying EXCEPT !.obj = RetryableAction_on_retry(@, callback)]
        /\ UNCHANGED <<actors, heap, driver, closedBy, lastCall>>

Execute ==
    \E action \in Funcs :
        /\ RetryIdle /\ retrying.kind = "RetryableAction"
        /\ retrying' = [retrying EXCEPT !.call =
               [op |-> "execute", func |-> action, end |-> execute(retrying.obj, action)]]
        /\ UNCHANGED <<actors, heap, driver, closedBy, lastCall>>

Wrapper ==
    \E func \in Funcs :
        /\ RetryIdle /\ retrying.kind = "retry"
        /\ retrying' = [retrying EXCEPT !.call =
               [op |-> "wrapper", func |-> func, end |-> wrapper(retrying.obj, func)]]
        /\ UNCHANGED <<actors, heap, driver, closedBy, lastCall>>

\* the caller has taken the outcome and goes on
ContinueRetry ==
    /\ ~RetryIdle
    /\ retrying' = [retrying EXCEPT !.call = NoRetried]
    /\ UNCHANGED <<actors, heap, driver, closedBy, lastCall>>

\* a RetryableAction fresh from with_retry, or a function decorated by
\* retry() or by retry(max_attempts, delay, backoff, exceptions, on_retry)
InitRetry ==
    /\ actors = [a \in ActorIds |-> [name |-> ActorName(a), _abilities |-> <<>>]]
    /\ heap = <<>>
    /\ driver = [browserOpen |-> TRUE, contexts |-> <<>>, pages |-> <<>>]
    /\ closedBy = {}
    /\ lastCall = NoCall
    /\ retrying \in
           {Retrying("RetryableAction", with_retry), Retrying("retry", retry_defaults)}
           \cup {Retrying("retry", retry(max_attempts, delay, backoff,
                                         TupleOf(exceptions), on_retry)) :
                    max_attempts \in Attempts, delay \in Delays, backoff \in Backoffs,
                    exceptions \in ExceptionTuples, on_retry \in Callbacks}

NextRetry ==
    \/ WithMaxAttempts
    \/ WithDelay
    \/ WithBackoff
    \/ OnExceptions
    \/ OnRetryCallback
    \/ Execute
    \/ Wrapper
    \/ ContinueRetry

SpecRetry == InitRetry /\ [][NextRetry]_vars

-----------------------------------------------------------------------------
(* The specifications *)

\* the test code has taken the outcome of its last call and goes on
Continue ==
    /\ ~Idle
    /\ lastCall' = NoCall
    /\ UNCHANGED <<actors, heap, driver, closedBy, retrying>>

Init ==
    /\ actors = [a \in ActorIds |-> [name |-> ActorName(a), _abilities |-> <<>>]]
    /\ heap = <<>>
    /\ driver = [browserOpen |-> TRUE, contexts |-> <<>>, pages |-> <<>>]
    /\ closedBy = {}
    /\ lastCall = NoCall
    /\ retrying = Retrying("RetryableAction", with_retry)

ActorBounds == Bounds(ActorIds, MaxGrants, ActorMaxObjects, {})

\* the actor protocol: abilities are built and granted, and looked up
NextActor ==
    \/ page_fixture(ActorBounds)
    \/ Using(ActorBounds)
    \/ UsingPage(ActorBounds)
    \/ WhoCan(ActorBounds)
    \/ HasAbilityTo(ActorBounds)
    \/ AbilityTo(ActorBounds)
    \/ Continue

SpecActor == Init /\ [][NextActor]_vars

AbilityBounds == Bounds({1}, 1, AbilityMaxObjects, {})

\* the life of the BrowseTheWeb instances: built, copied by a grant,
\* their accessors read and their handles closed
NextAbility ==
    \/ page_fixture(AbilityBounds)
    \/ Using(AbilityBounds)
    \/ UsingPage(AbilityBounds)
    \/ WhoCan(AbilityBounds)
    \/ ContextAccess(AbilityBounds)
    \/ PageAccess(AbilityBounds)
    \/ NewPage(AbilityBounds)
    \/ ClosePage(AbilityBounds)
    \/ CloseContext(AbilityBounds)
    \/ CloseBrowser(AbilityBounds)
    \/ Continue

SpecAbility == Init /\ [][NextAbility]_vars

PerformBounds == Bounds({1}, 1, PerformMaxObjects, FaultTypes)

\* actors at work: abilities are built and granted, then the actors perform
\* and ask; handles get closed under them
NextPerform ==
    \/ page_fixture(PerformBounds)
    \/ Using(PerformBounds)
    \/ UsingPage(PerformBounds)
    \/ WhoCan(PerformBounds)
    \/ HasAbilityTo(PerformBounds)
    \/ AbilityTo(PerformBounds)
    \/ ClosePage(PerformBounds)
    \/ CloseContext(PerformBounds)
    \/ AttemptsTo(PerformBounds)
    \/ Asks(PerformBounds)
    \/ Continue

SpecPerform == Init /\ [][NextPerform]_vars

-----------------------------------------------------------------------------
(* Claims on the actor protocol, checked under SpecActor *)

Granted(a) == DOMAIN actors[a]._abilities
Stored(a) == {actors[a]._abilities[k] : k \in Granted(a)}
Handles(x) == <<heap[x]._browser, heap[x]._context, heap[x]._page>>

\* C2: for an ability class that was not granted to the actor, ability_to
\* raises the missing-ability error (a ValueError) naming the actor and the
\* class and returns nothing, and it raises in no other state;
\* has_ability_to is false in exactly the states where the class is not granted.
C2_MissingAbilityRaises ==
    /\ lastCall.op = "ability_to" =>
        IF lastCall.cls \in Granted(lastCall.self)
        THEN /\ lastCall.exc = NoExc
             /\ lastCall.ret.i = actors[lastCall.self]._abilities[lastCall.cls]
        ELSE /\ lastCall.exc.type = "ValueError"
             /\ lastCall.exc.actor = actors[lastCall.self].name
             /\ lastCall.exc.kind = lastCall.cls
             /\ lastCall.ret = RetNone
    /\ lastCall.op = "has_ability_to" =>
        /\ lastCall.exc = NoExc
        /\ lastCall.ret = RetBool(lastCall.cls \in Granted(lastCall.self))

\* ability_to has failed for BrowseTheWeb on an actor while the other actor holds it
C2_Witness ==
    /\ lastCall.op = "ability_to"
    /\ lastCall.cls = "BrowseTheWeb"
    /\ lastCall.exc.type = "ValueError"
    /\ \E b \in ActorIds : "BrowseTheWeb" \in Granted(b)

C4_LatestGrantWins ==
    lastCall.op = "who_can" /\ lastCall.abilities # <<>> =>
        LET a == lastCall.self
            Xn == lastCall.abilities[Len(lastCall.abilities)]
        IN  /\ Granted(a) = {"BrowseTheWeb"}
            /\ Stored(a) = {Len(heap)}
            /\ Handles(Len(heap)) = Handles(Xn)
            /\ ability_to(Machine(NoFault, DefaultEnv), a, "BrowseTheWeb").ret.i
                   = Len(heap)

\* who_can(X1, X2) with two abilities of different handles
C4_Witness ==
    /\ lastCall.op = "who_can"
    /\ Len(lastCall.abilities) = 2
    /\ Handles(lastCall.abilities[1]) # Handles(lastCall.abilities[2])
    /\ Handles(Len(heap)) = Handles(lastCall.abilities[2])

\* two calls: an actor that held a copy of one ability was granted another
C4_WitnessTwoCalls ==
    /\ lastCall.op = "who_can"
    /\ Len(lastCall.abilities) = 1
    /\ \E x \in Abilities :
        /\ x < Len(heap)
        /\ heap[x]._actor = lastCall.self
        /\ Handles(x) # Handles(Len(heap))

\* C9 as claimed: two distinct actors holding a browsing ability hold no
\* common context handle and no common page handle.
C9_ActorsShareNoHandle ==
    \A a, b \in ActorIds : \A x \in Stored(a), y \in Stored(b) :
        a # b =>
            /\ heap[x]._context = None \/ heap[x]._context # heap[y]._context
            /\ heap[x]._page = None \/ heap[x]._page # heap[y]._page

\* C9 amended: two distinct actors never store the same BrowseTheWeb
\* instance, each stored instance is bound to its own actor, and a grant
\* leaves the instances stored by the other actors as they were; the copy a
\* grant stores carries the handles of the ability it was made from.
C9_ActorsShareNoInstance ==
    /\ \A a, b \in ActorIds : a # b => Stored(a) \cap Stored(b) = {}
    /\ \A a \in ActorIds : \A x \in Stored(a) : heap[x]._actor = a
    /\ lastCall.op = "who_can" /\ lastCall.abilities # <<>> =>
        /\ Handles(actors[lastCall.self]._abilities["BrowseTheWeb"])
               = Handles(lastCall.abilities[Len(lastCall.abilities)])
        /\ \A i \in DOMAIN lastCall.abilities :
               lastCall.abilities[i] \notin Stored(lastCall.self)

\* both actors were granted the same ability instance, built from a page
C9_Witness ==
    /\ lastCall.op = "who_can"
    /\ lastCall.abilities # <<>>
    /\ \E b \in ActorIds :
        /\ b # lastCall.self
        /\ \E y \in Stored(b), x \in Stored(lastCall.self) :
            /\ heap[x]._page # None
            /\ heap[x]._page = heap[y]._page

\* C11: as_actor(A) builds a new instance with the browser, context and
\* page handles of the original and _actor = A, and leaves the original
\* (and every other instance) as it was: for each ability X given to
\* who_can the heap gains one cell, equal to X but for its _actor, no cell
\* that existed changes, and nothing is called on the driver.
C11_AsActorCopiesLeavesOriginal ==
    [][Idle /\ lastCall'.op = "who_can" =>
        /\ Len(heap') = Len(heap) + Len(lastCall'.abilities)
        /\ \A x \in DOMAIN heap : heap'[x] = heap[x]
        /\ \A i \in DOMAIN lastCall'.abilities :
               heap'[Len(heap) + i] =
                   [heap[lastCall'.abilities[i]] EXCEPT !._actor = lastCall'.self]
        /\ lastCall'.trace = <<>>
        /\ UNCHANGED driver
      ]_vars

\* an ability bound to one actor, with a cached page, was granted to the
\* other actor: the original is still bound to the first
C11_Witness ==
    /\ lastCall.op = "who_can"
    /\ Len(lastCall.abilities) = 1
    /\ heap[lastCall.abilities[1]]._actor \in ActorIds \ {lastCall.self}
    /\ heap[lastCall.abilities[1]]._page # None
    /\ heap[Len(heap)]._actor = lastCall.self
    /\ Handles(Len(heap)) = Handles(lastCall.abilities[1])

\* what a call on ability x made of the machine, but for the actor x is
\* bound to: the driver calls, the outcome, the driver objects and the
\* handles x holds afterwards
Outcome(m, x) ==
    [trace |-> m.trace, exc |-> m.exc, ret |-> m.ret, driver |-> m.driver,
     handles |-> <<m.heap[x]._browser, m.heap[x]._context, m.heap[x]._page>>]

\* the accessors and close operations of ability x, each run from the
\* current state
AbilityCalls(x) ==
    LET m == Machine(NoFault, DefaultEnv)
    IN  <<BrowseTheWeb_context(m, x), BrowseTheWeb_page(m, x),
          BrowseTheWeb_new_page(m, x), close_page(m, x), close_context(m, x),
          close_browser(m, x)>>

\* C20: two instances with the same browser, context and page handles,
\* bound to different actors or one of them unbound, are served alike: each
\* of context, page, new_page, close_page, close_context and close_browser
\* makes the same driver calls, returns or raises the same, leaves the
\* driver and the handles of the instance the same, and changes neither
\* the actor the instance is bound to nor the other instance.
C20_ActorIsDiagnosticOnly ==
    Idle =>
        \A x, y \in Abilities :
            x # y /\ Handles(x) = Handles(y) /\ heap[x]._actor # heap[y]._actor =>
                \A i \in 1..6 :
                    /\ Outcome(AbilityCalls(x)[i], x) = Outcome(AbilityCalls(y)[i], y)
                    /\ AbilityCalls(x)[i].heap[x]._actor = heap[x]._actor
                    /\ AbilityCalls(x)[i].heap[y] = heap[y]

\* the two actors hold copies of one ability with a cached page, whose
\* original is unbound: closing the context through either copy or through
\* the original closes it
C20_Witness ==
    /\ Idle
    /\ \E x \in Stored(1), y \in Stored(2), z \in Abilities :
        /\ Handles(x) = Handles(y)
        /\ Handles(z) = Handles(x)
        /\ heap[z]._actor = None
        /\ heap[x]._page # None
        /\ close_context(Machine(NoFault, DefaultEnv), x).trace # <<>>
        /\ ~ContextAlive(close_context(Machine(NoFault, DefaultEnv), z).driver,
                         heap[y]._context)

-----------------------------------------------------------------------------
(* Claims on performing and asking, checked under SpecPerform *)

\* the perform_as calls made by the attempts_to frame at this depth
PerformEvents(T, depth) ==
    SelectSeq(T, LAMBDA e : e.call = "perform_as" /\ e.depth = depth)

\* the positions of the calls that raised
Failures(T) == {i \in DOMAIN T : T[i].raises}

IsPrefix(s, t) == Len(s) <= Len(t) /\ \A i \in DOMAIN s : s[i] = t[i]

\* C1: attempts_to(p1..pn) calls perform_as of p1..pn on the actor, once
\* each and in index order; when a task fails nothing is called after the
\* failing call and the failure reaches the caller; when none fails all n
\* are performed and the actor is returned.
C1_AttemptsToInOrder ==
    lastCall.op = "attempts_to" =>
        LET T == lastCall.trace
            top == PerformEvents(T, 0)
        IN  /\ IsPrefix([i \in DOMAIN top |-> top[i].p], lastCall.tasks)
            /\ \A i \in DOMAIN top : top[i].obj = lastCall.self
            /\ IF Failures(T) = {}
               THEN /\ lastCall.exc = NoExc
                    /\ Len(top) = Len(lastCall.tasks)
                    /\ lastCall.ret = RetObj("Actor", lastCall.self)
               ELSE /\ Failures(T) = {Len(T)}
                    /\ lastCall.exc # NoExc
                    /\ lastCall.exc.at = Len(T)

\* the second of three tasks failed: the third was never performed
C1_Witness ==
    /\ lastCall.op = "attempts_to"
    /\ Len(lastCall.tasks) = 3
    /\ Len(PerformEvents(lastCall.trace, 0)) = 2
    /\ lastCall.exc # NoExc

\* the driver calls that act on the page
IsAction(e) == e.call \in {"goto", "click", "fill", "type"}
IsWait(e) == e.call \in {"wait_for_selector", "wait_for_load_state"}

\* the perform_as call of the interaction that made call i
Owner(T, i) ==
    CHOOSE j \in 1..(i - 1) :
        /\ T[j].call = "perform_as"
        /\ \A k \in (j + 1)..(i - 1) : T[k].call # "perform_as"

\* C8 as claimed: in Navigate, Click and Type a wait has completed before
\* any driver action of the interaction is dispatched.
C8_WaitBeforeEveryAction ==
    lastCall.op = "attempts_to" =>
        LET T == lastCall.trace
        IN  \A i \in DOMAIN T :
                IsAction(T[i]) =>
                    \E k \in (Owner(T, i) + 1)..(i - 1) :
                        IsWait(T[k]) /\ ~T[k].raises

\* C8 amended: in Click and Type the wait for the element to be visible has
\* completed before click, fill or type is dispatched on that element, and a
\* failed wait is the last call made; Navigate dispatches goto with no wait
\* before it, and waits for the load state only after goto went through.
C8_WaitBeforeElementAction ==
    lastCall.op = "attempts_to" =>
        LET T == lastCall.trace
        IN  \A i \in DOMAIN T :
                /\ T[i].call \in {"click", "fill", "type"} =>
                       \E k \in (Owner(T, i) + 1)..(i - 1) :
                           /\ T[k].call = "wait_for_selector"
                           /\ T[k].locator = T[i].locator
                           /\ T[k].text = "visible"
                           /\ T[k].obj = T[i].obj
                           /\ ~T[k].raises
                /\ IsWait(T[i]) /\ T[i].raises => i = Len(T)
                /\ T[i].call = "goto" =>
                       \A k \in (Owner(T, i) + 1)..(i - 1) : ~IsWait(T[k])
                /\ T[i].call = "wait_for_load_state" =>
                       /\ T[i - 1].call = "goto"
                       /\ ~T[i - 1].raises
                       /\ T[i].text = "networkidle"

\* a run of Navigate, Type, Click in which the wait of the Click failed
C8_Witness ==
    /\ lastCall.op = "attempts_to"
    /\ LET T == lastCall.trace
       IN  /\ \E i \in DOMAIN T : T[i].call = "goto"
           /\ \E i \in DOMAIN T : T[i].call = "type"
           /\ \E i \in DOMAIN T :
               /\ T[i].call = "wait_for_selector"
               /\ T[i].locator = SUBMIT_BUTTON
               /\ T[i].raises

IsProbe(question) == question.type \in {"Visibility", "Presence"}

\* C7 as claimed: Visibility and Presence never raise, whoever answers.
C7_ProbesNeverRaise ==
    lastCall.op = "asks" /\ IsProbe(lastCall.question) =>
        /\ lastCall.exc = NoExc
        /\ lastCall.ret.t = "bool"

\* C7 amended: once the actor's BrowseTheWeb page is at hand, Visibility and
\* Presence never raise: an error of is_visible / query_selector yields
\* False. What fails before the check propagates: the ValueError of an actor
\* without BrowseTheWeb, and an error of new_context / new_page when the
\* page has to be created.
C7_ProbesSwallowCheckErrors ==
    lastCall.op = "asks" /\ IsProbe(lastCall.question) =>
        LET T == lastCall.trace
            check == IF lastCall.question.type = "Visibility"
                     THEN "is_visible" ELSE "query_selector"
        IN  /\ \A i \in DOMAIN T :
                T[i].call = check =>
                    /\ i = Len(T)
                    /\ lastCall.exc = NoExc
                    /\ lastCall.ret.t = "bool"
                    /\ T[i].raises => lastCall.ret = RetBool(FALSE)
            /\ lastCall.exc # NoExc =>
                /\ T[Len(T)].raises
                /\ T[Len(T)].call \in {"ability_to", "new_context", "new_page"}
                /\ T[Len(T)].call = "ability_to" <=> lastCall.exc.type = "ValueError"
            /\ lastCall.exc = NoExc => T[Len(T)].call = check

\* is_visible raised on the actor's page and the answer was False
C7_Witness ==
    /\ lastCall.op = "asks"
    /\ lastCall.question.type = "Visibility"
    /\ lastCall.trace[Len(lastCall.trace)].call = "is_visible"
    /\ lastCall.trace[Len(lastCall.trace)].raises
    /\ lastCall.ret = RetBool(FALSE)

\* the four steps of Login(username, password)
LoginSteps(username, password) ==
    <<Navigate(LoginUrl, NoOptions), Type(username, USERNAME_FIELD, NoOptions),
      Type(password, PASSWORD_FIELD, NoOptions), Click(SUBMIT_BUTTON, NoOptions)>>

\* C10: Login(username, password) performs, on the actor it is performed
\* by, Navigate to the login URL, Type username into #username, Type
\* password into #password and Click #submit, once each and in this order;
\* a failing step is the last call made and its failure reaches the caller
\* of attempts_to.
C10_LoginFourStepsInOrder ==
    lastCall.op = "attempts_to" /\ Len(lastCall.tasks) = 1
        /\ lastCall.tasks[1].type = "Login" =>
        LET T == lastCall.trace
            login == lastCall.tasks[1]
            steps == PerformEvents(T, 1)
            acts == SelectSeq(T, LAMBDA e : e.call \in {"goto", "type", "click"})
        IN  /\ IsPrefix([i \in DOMAIN steps |-> steps[i].p],
                        LoginSteps(login.username, login.password))
            /\ \A i \in DOMAIN steps : steps[i].obj = lastCall.self
            /\ IF Failures(T) = {}
               THEN /\ lastCall.exc = NoExc
                    /\ Len(steps) = 4
                    /\ [i \in DOMAIN acts |-> <<acts[i].call, acts[i].locator, acts[i].text>>]
                           = << <<"goto", "", LoginUrl>>,
                                <<"type", USERNAME_FIELD, login.username>>,
                                <<"type", PASSWORD_FIELD, login.password>>,
                                <<"click", SUBMIT_BUTTON, "">> >>
               ELSE /\ Failures(T) = {Len(T)}
                    /\ lastCall.exc # NoExc
                    /\ lastCall.exc.at = Len(T)

\* Login failed in its third step (typing the password): no Click followed
C10_Witness ==
    /\ lastCall.op = "attempts_to"
    /\ Len(lastCall.tasks) = 1
    /\ lastCall.tasks[1].type = "Login"
    /\ Len(PerformEvents(lastCall.trace, 1)) = 3
    /\ lastCall.exc # NoExc

\* Login went through all four steps
C10_WitnessSuccess ==
    /\ lastCall.op = "attempts_to"
    /\ Len(lastCall.tasks) = 1
    /\ lastCall.tasks[1].type = "Login"
    /\ Len(PerformEvents(lastCall.trace, 1)) = 4
    /\ lastCall.exc = NoExc

\* the calls made on the page by the interaction or question whose
\* perform_as / answered_by call is at position j of the trace
PageCalls(T, j) ==
    LET last == IF \E k \in (j + 1)..Len(T) : T[k].call = "perform_as"
                THEN (CHOOSE k \in (j + 1)..Len(T) :
                         /\ T[k].call = "perform_as"
                         /\ \A i \in (j + 1)..(k - 1) : T[i].call # "perform_as") - 1
                ELSE Len(T)
        calls == SelectSeq(SubSeq(T, j + 1, last),
                           LAMBDA e : e.call \notin {"ability_to", "new_context",
                                                     "new_page"})
    IN  [i \in DOMAIN calls |->
            <<calls[i].call, calls[i].locator, calls[i].text, calls[i].options>>]

\* what Type(text, locator, options) is to call on the page
TypeCalls(p) ==
    <<<<"wait_for_selector", p.locator, "visible", NoOptions>>>>
        \o (IF <<"clear", "False">> \in p.options THEN <<>>
            ELSE <<<<"fill", p.locator, "", NoOptions>>>>)
        \o <<<<"type", p.locator, p.text,
               p.options \ {<<"clear", "True">>, <<"clear", "False">>}>>>>

\* C14: every Type(text, locator, options) performed calls, on the page:
\* wait_for_selector(locator, visible); then fill(locator, "") iff clear is
\* true or absent; then type(locator, text) with the options but "clear";
\* each once and in this order, up to the first call that fails, and all of
\* them when none fails.
C14_TypeWaitClearType ==
    lastCall.op = "attempts_to" =>
        LET T == lastCall.trace
        IN  \A j \in DOMAIN T :
                T[j].call = "perform_as" /\ T[j].p.type = "Type" =>
                    /\ IsPrefix(PageCalls(T, j), TypeCalls(T[j].p))
                    /\ (\A k \in j..Len(T) : ~T[k].raises) =>
                           PageCalls(T, j) = TypeCalls(T[j].p)

\* Type with clear = False and two more options went through: no fill, and
\* the two options reached type
C14_Witness ==
    /\ lastCall.op = "attempts_to"
    /\ lastCall.exc = NoExc
    /\ Len(lastCall.tasks) = 1
    /\ lastCall.tasks[1].type = "Type"
    /\ <<"clear", "False">> \in lastCall.tasks[1].options
    /\ PageCalls(lastCall.trace, 1) =
           <<<<"wait_for_selector", USERNAME_FIELD, "visible", NoOptions>>,
             <<"type", USERNAME_FIELD, "student",
               {<<"delay", "100">>, <<"timeout", "5000">>}>>>>

\* Type with the default options went through: wait, fill, type
C14_WitnessClear ==
    /\ lastCall.op = "attempts_to"
    /\ lastCall.exc = NoExc
    /\ Len(lastCall.tasks) = 1
    /\ lastCall.tasks[1] = Type("student", USERNAME_FIELD, NoOptions)
    /\ Len(PageCalls(lastCall.trace, 1)) = 3
    /\ PageCalls(lastCall.trace, 1)[2] = <<"fill", USERNAME_FIELD, "", NoOptions>>

\* what Navigate(url, options) is to call on the page
NavigateCalls(p) ==
    <<<<"goto", "", p.url, p.options>>,
      <<"wait_for_load_state", "", "networkidle", NoOptions>>>>

\* the page of the BrowseTheWeb ability the actor holds
PageOf(a) == heap[actors[a]._abilities["BrowseTheWeb"]]._page

\* C15: every Navigate(url, options) performed calls goto(url) with the
\* options on the page of the actor's ability and then
\* wait_for_load_state("networkidle") on it, and returns only after both;
\* when goto fails the wait is not called and the failure of goto reaches
\* the caller of attempts_to.
C15_NavigateGotoThenIdle ==
    lastCall.op = "attempts_to" =>
        LET T == lastCall.trace
        IN  \A j \in DOMAIN T :
                T[j].call = "perform_as" /\ T[j].p.type = "Navigate" =>
                    /\ IsPrefix(PageCalls(T, j), NavigateCalls(T[j].p))
                    /\ (\A k \in j..Len(T) : ~T[k].raises) =>
                           PageCalls(T, j) = NavigateCalls(T[j].p)
                    /\ \A k \in (j + 1)..Len(T) :
                           T[k].call = "goto" =>
                               /\ T[k].obj = PageOf(lastCall.self)
                               /\ T[k].raises =>
                                      /\ k = Len(T)
                                      /\ lastCall.exc # NoExc
                                      /\ lastCall.exc.at = k
                               /\ ~T[k].raises =>
                                      /\ k < Len(T)
                                      /\ T[k + 1].call = "wait_for_load_state"
                                      /\ T[k + 1].obj = T[k].obj

\* Navigate with an option went through: goto with the option, then the
\* wait, and the page is at the URL
C15_Witness ==
    /\ lastCall.op = "attempts_to"
    /\ lastCall.exc = NoExc
    /\ lastCall.tasks = <<Navigate(LoginUrl, {<<"timeout", "5000">>})>>
    /\ PageCalls(lastCall.trace, 1) = NavigateCalls(lastCall.tasks[1])
    /\ driver.pages[PageOf(lastCall.self)].url = LoginUrl

\* goto failed: it is the last call made
C15_WitnessGotoFails ==
    /\ lastCall.op = "attempts_to"
    /\ lastCall.exc.type = "TimeoutError"
    /\ lastCall.trace[Len(lastCall.trace)].call = "goto"

\* C16: Text.of(locator), when it returns, returns a str and never None:
\* it has called wait_for_selector(locator, visible) and then
\* text_content(locator) on the page, and returns the content, or "" when
\* the content is None; when a call fails it returns nothing and the
\* failure is raised.
C16_TextNeverNone ==
    lastCall.op = "asks" /\ lastCall.question.type = "Text" =>
        LET T == lastCall.trace
            locator == lastCall.question.locator
        IN  IF lastCall.exc = NoExc
            THEN /\ PageCalls(T, 1) =
                        <<<<"wait_for_selector", locator, "visible", NoOptions>>,
                          <<"text_content", locator, "", NoOptions>>>>
                 /\ lastCall.ret.t = "str"
                 /\ lastCall.ret =
                        IF lastCall.env.content = "None" THEN RetStr("")
                        ELSE RetStr(lastCall.env.content)
            ELSE /\ T[Len(T)].raises
                 /\ lastCall.exc.at = Len(T)
                 /\ IsPrefix(PageCalls(T, 1),
                        <<<<"wait_for_selector", locator, "visible", NoOptions>>,
                          <<"text_content", locator, "", NoOptions>>>>)

\* the element had no text content: the answer is the empty string
C16_Witness ==
    /\ lastCall.op = "asks"
    /\ lastCall.question.type = "Text"
    /\ lastCall.env.content = "None"
    /\ lastCall.exc = NoExc
    /\ lastCall.ret = RetStr("")
    /\ lastCall.trace[Len(lastCall.trace)].call = "text_content"

\* whether the target of driver call e is open
TargetAlive(e) ==
    CASE e.call = "new_context" -> driver.browserOpen
      [] e.call = "new_page" -> ContextAlive(driver, e.obj)
      [] OTHER -> PageAlive(driver, e.obj)

\* the error the call at position i of the trace raised, as it was raised:
\* the ValueError of ability_to, or the error of the driver
ErrorRaisedAt(T, i, a) ==
    IF T[i].call = "ability_to"
    THEN [NoExc EXCEPT !.type = "ValueError", !.actor = actors[a].name,
                       !.kind = T[i].text, !.at = i]
    ELSE [NoExc EXCEPT !.type = IF TargetAlive(T[i]) THEN "TimeoutError"
                                ELSE "TargetClosedError",
                       !.at = i]

\* C17: a failure in attempts_to (of Click, Type, Navigate, alone or as the
\* steps of a task) or in asks(Text) is never swallowed and reaches the
\* caller as it was raised: the call fails iff one of the calls it made
\* raised, that call is the last one made, and the error the caller gets
\* is the error of that call, with its type and nothing added.
C17_FailuresPropagateUnmodified ==
    lastCall.op = "attempts_to"
        \/ (lastCall.op = "asks" /\ lastCall.question.type = "Text") =>
        LET T == lastCall.trace
        IN  /\ lastCall.exc # NoExc <=> Failures(T) # {}
            /\ Failures(T) # {} =>
                /\ Failures(T) = {Len(T)}
                /\ lastCall.exc = ErrorRaisedAt(T, Len(T), lastCall.self)
                /\ lastCall.ret = RetNone

\* the click of a Click, second of two tasks, timed out and attempts_to
\* failed with that TimeoutError
C17_Witness ==
    /\ lastCall.op = "attempts_to"
    /\ Len(lastCall.tasks) = 2
    /\ lastCall.tasks[2].type = "Click"
    /\ lastCall.trace[Len(lastCall.trace)].call = "click"
    /\ lastCall.exc.type = "TimeoutError"

\* Text was asked on a page that had been closed under the actor
C17_WitnessClosedPage ==
    /\ lastCall.op = "asks"
    /\ lastCall.question.type = "Text"
    /\ lastCall.exc.type = "TargetClosedError"
    /\ lastCall.trace[Len(lastCall.trace)].call = "wait_for_selector"

\* the last call made is the wait of a Click, and it failed
ClickWaitFailed(T) ==
    /\ T # <<>>
    /\ T[Len(T)].call = "wait_for_selector"
    /\ T[Len(T)].raises
    /\ T[Owner(T, Len(T))].p.type = "Click"

\* C18 as claimed: a Click whose wait for the element fails, fails with an
\* InteractionError whose reason is ElementNotFound or Timeout.
C18_ClickWaitInteractionError ==
    lastCall.op = "attempts_to" /\ ClickWaitFailed(lastCall.trace) =>
        /\ lastCall.exc.type = "InteractionError"
        /\ lastCall.exc.kind \in {"ElementNotFound", "Timeout"}

\* C18 amended: a Click whose wait for the element fails, fails with the
\* error the driver raised for the wait, as it was raised: the driver's
\* TimeoutError when the wait ran out of time on an open page, its
\* TargetClosedError when the page was closed; nothing names a reason, and
\* the click is not dispatched.
C18_ClickWaitDriverError ==
    lastCall.op = "attempts_to" /\ ClickWaitFailed(lastCall.trace) =>
        LET T == lastCall.trace
        IN  /\ lastCall.exc.type =
                   IF PageAlive(driver, T[Len(T)].obj) THEN "TimeoutError"
                   ELSE "TargetClosedError"
            /\ lastCall.exc.kind = ""
            /\ lastCall.exc.actor = ""
            /\ lastCall.exc.at = Len(T)
            /\ \A k \in Owner(T, Len(T))..Len(T) : T[k].call # "click"

\* the wait of a single Click timed out on the open page of the actor
C18_Witness ==
    /\ lastCall.op = "attempts_to"
    /\ lastCall.tasks = <<Click(SUBMIT_BUTTON, NoOptions)>>
    /\ ClickWaitFailed(lastCall.trace)
    /\ lastCall.exc.type = "TimeoutError"
    /\ PageAlive(driver, PageOf(lastCall.self))

\* C19: attempts_to, asks, has_ability_to and ability_to, returning or
\* failing, leave every actor as it was: its name and its ability map, the
\* classes and the instance stored under each; so does every call but
\* who_can, and who_can changes the map of its actor only, keeps the name
\* and removes no class.
C19_OnlyWhoCanChangesActor ==
    [][/\ lastCall'.op \in {"attempts_to", "asks", "has_ability_to", "ability_to"} =>
            actors' = actors
       /\ lastCall'.op # "who_can" => actors' = actors
       /\ lastCall'.op = "who_can" =>
            \A a \in DOMAIN actors :
                /\ actors'[a].name = actors[a].name
                /\ DOMAIN actors[a]._abilities \subseteq DOMAIN actors'[a]._abilities
                /\ a # lastCall'.self => actors'[a] = actors[a]
      ]_vars

\* attempts_to has failed in a driver call, and the actor holds its ability
C19_Witness ==
    /\ lastCall.op = "attempts_to"
    /\ lastCall.exc.type = "TimeoutError"
    /\ actors[lastCall.self].name = ActorName(lastCall.self)
    /\ Granted(lastCall.self) = {"BrowseTheWeb"}
    /\ heap[actors[lastCall.self]._abilities["BrowseTheWeb"]]._actor = lastCall.self

\* the driver call that answers a question; CurrentUrl reads an attribute
Query(question) ==
    CASE question.type = "Visibility" -> "is_visible"
      [] question.type = "Presence" -> "query_selector"
      [] question.type = "Text" -> "text_content"
      [] question.type = "PageTitle" -> "title"
      [] OTHER -> ""

\* what the page shows for a question, as the question is to report it
Shown(question, env, page) ==
    CASE question.type = "Visibility" -> RetBool(env.visible)
      [] question.type = "Presence" -> RetBool(env.present)
      [] question.type = "Text" ->
             RetStr(IF env.content = "None" THEN "" ELSE env.content)
      [] question.type = "PageTitle" -> RetStr(env.title)
      [] question.type = "CurrentUrl" -> RetStr(driver.pages[page].url)

\* C21: asks(q) calls q.answered_by once, with the actor asks was called
\* on, and what asks returns is what that call got from the page at the
\* time of this call: when it returns, the driver was queried in this very
\* call (once), and the answer is what the page shows now (or False, for a
\* probe whose query failed).
C21_AsksAnswersOnceFromThePage ==
    lastCall.op = "asks" =>
        LET T == lastCall.trace
            q == lastCall.question
            queries == {i \in DOMAIN T : T[i].call = Query(q)}
        IN  /\ {i \in DOMAIN T : T[i].call = "answered_by"} = {1}
            /\ T[1].obj = lastCall.self
            /\ T[1].text = q.type
            /\ T[1].locator = q.locator
            /\ lastCall.exc = NoExc =>
                /\ q.type # "CurrentUrl" => queries = {Len(T)}
                /\ lastCall.ret =
                       IF T[Len(T)].raises THEN RetBool(FALSE)
                       ELSE Shown(q, lastCall.env, PageOf(lastCall.self))

\* CurrentUrl was asked after the page had been driven to the login URL,
\* and Visibility of an element that is not shown was asked: each answer
\* is the one of the page as it is
C21_Witness ==
    /\ lastCall.op = "asks"
    /\ lastCall.exc = NoExc
    /\ \/ /\ lastCall.question.type = "CurrentUrl"
          /\ lastCall.ret = RetStr(LoginUrl)
       \/ /\ lastCall.question.type = "Visibility"
          /\ ~lastCall.env.visible
          /\ ~lastCall.trace[Len(lastCall.trace)].raises
          /\ lastCall.ret = RetBool(FALSE)
          /\ driver.pages[PageOf(lastCall.self)].url = LoginUrl

\* the most abilities granted in one who_can call of the chaining claim
MaxChain == 2

\* C22: a who_can or attempts_to call that ends without a failure returns
\* the actor it was called on, whatever the number of its arguments (none
\* included); for who_can this is also stated of every call that could be
\* made next, with up to MaxChain abilities.
C22_ChainingReturnsTheActor ==
    /\ lastCall.op \in {"who_can", "attempts_to"} /\ lastCall.exc = NoExc =>
           lastCall.ret = RetObj("Actor", lastCall.self)
    /\ \A a \in DOMAIN actors, n \in 0..MaxChain :
           \A abilities \in [1..n -> Abilities] :
               who_can(Machine(NoFault, DefaultEnv), a, abilities).ret = RetObj("Actor", a)

\* attempts_to was called with no task and returned the actor
C22_Witness ==
    /\ lastCall.op = "attempts_to"
    /\ lastCall.tasks = <<>>
    /\ lastCall.exc = NoExc
    /\ lastCall.ret = RetObj("Actor", lastCall.self)

\* attempts_to performed three tasks and returned the actor
C22_WitnessThreeTasks ==
    /\ lastCall.op = "attempts_to"
    /\ Len(lastCall.tasks) = 3
    /\ lastCall.exc = NoExc
    /\ lastCall.ret = RetObj("Actor", lastCall.self)

\* who_can granted an ability and returned the actor
C22_WitnessWhoCan ==
    /\ lastCall.op = "who_can"
    /\ Len(lastCall.abilities) = 1
    /\ lastCall.ret = RetObj("Actor", lastCall.self)

\* the steps a task declares, in its order
Steps(task) ==
    CASE task.type = "Login" -> LoginSteps(task.username, task.password)
      [] task.type = "NavigateToLoginPage" -> <<Navigate(LoginUrl, NoOptions)>>
      [] task.type = "EnterCredentials" ->
             <<Type(task.username, USERNAME_FIELD, NoOptions),
               Type(task.password, PASSWORD_FIELD, NoOptions)>>
      [] task.type = "SubmitLoginForm" -> <<Click(SUBMIT_BUTTON, NoOptions)>>
      [] OTHER -> <<>>

IsTask(p) ==
    p.type \in {"Login", "NavigateToLoginPage", "EnterCredentials", "SubmitLoginForm"}

\* the position after the calls made for the task performed at position j:
\* that of the next task of the outer attempts_to, or the end of the trace
SegmentEnd(T, j) ==
    IF \E k \in (j + 1)..Len(T) : T[k].call = "perform_as" /\ T[k].depth = 0
    THEN CHOOSE k \in (j + 1)..Len(T) :
             /\ T[k].call = "perform_as" /\ T[k].depth = 0
             /\ \A l \in (j + 1)..(k - 1) :
                    ~(T[l].call = "perform_as" /\ T[l].depth = 0)
    ELSE Len(T) + 1

\* the positions where the steps of the task performed at j are performed
StepsAt(T, j) ==
    {k \in (j + 1)..(SegmentEnd(T, j) - 1) :
        T[k].call = "perform_as" /\ T[k].depth = 1}

\* C24: when attempts_to performs a task T that calls attempts_to on its
\* own steps, the steps are performed on the same actor, in the order T
\* declares, between T and the task that follows T; the following task
\* starts only when all steps of T are done and none has failed; a failure
\* in a step is the last call made (no further step, no following task)
\* and reaches the caller of the outer attempts_to.
C24_NestedStepsDepthFirst ==
    lastCall.op = "attempts_to" =>
        LET T == lastCall.trace
        IN  \A j \in DOMAIN T :
                T[j].call = "perform_as" /\ T[j].depth = 0 /\ IsTask(T[j].p) =>
                    /\ \A k \in StepsAt(T, j) :
                           /\ Cardinality({l \in StepsAt(T, j) : l <= k})
                                  <= Len(Steps(T[j].p))
                           /\ T[k].p = Steps(T[j].p)[
                                  Cardinality({l \in StepsAt(T, j) : l <= k})]
                           /\ T[k].obj = lastCall.self
                    /\ SegmentEnd(T, j) <= Len(T) =>
                           /\ Cardinality(StepsAt(T, j)) = Len(Steps(T[j].p))
                           /\ \A k \in j..(SegmentEnd(T, j) - 1) : ~T[k].raises
                    /\ \A k \in j..(SegmentEnd(T, j) - 1) :
                           T[k].raises =>
                              /\ k = Len(T)
                              /\ lastCall.exc # NoExc
                              /\ lastCall.exc.at = k
                    /\ lastCall.exc = NoExc =>
                           Cardinality(StepsAt(T, j)) = Len(Steps(T[j].p))

\* the second of three tasks failed in its second step: the third task was
\* not performed
C24_Witness ==
    /\ lastCall.op = "attempts_to"
    /\ Len(lastCall.tasks) = 3
    /\ lastCall.tasks[2].type = "EnterCredentials"
    /\ Len(PerformEvents(lastCall.trace, 0)) = 2
    /\ Cardinality(StepsAt(lastCall.trace, 1)) = 1
    /\ Len(PerformEvents(lastCall.trace, 1)) = 3
    /\ lastCall.exc # NoExc

\* three tasks were performed one after the other, each with its steps
C24_WitnessAllDone ==
    /\ lastCall.op = "attempts_to"
    /\ Len(lastCall.tasks) = 3
    /\ lastCall.tasks[2].type = "EnterCredentials"
    /\ Len(PerformEvents(lastCall.trace, 0)) = 3
    /\ Len(PerformEvents(lastCall.trace, 1)) = 4
    /\ lastCall.exc = NoExc

-----------------------------------------------------------------------------
(* Claims on the BrowseTheWeb instances, checked under SpecAbility *)

ClosedBy(x) == {pair[2] : pair \in {q \in closedBy : q[1] = x}}

\* C5: once close_context() of an ability has closed its cached context,
\* the ability caches and hands out neither that context nor a page of it:
\* close_context leaves both caches empty, and a page the accessor returns
\* afterwards is the cached page of the cached context, a context this
\* ability has not closed.
C5_NoPageOfClosedContext ==
    /\ \A x \in Abilities : \A c \in ClosedBy(x) :
        /\ heap[x]._context # c
        /\ heap[x]._page # None => driver.pages[heap[x]._page].context # c
    /\ lastCall.op = "close_context" /\ lastCall.exc = NoExc =>
        /\ heap[lastCall.self]._context = None
        /\ heap[lastCall.self]._page = None
    /\ lastCall.op = "page" /\ lastCall.exc = NoExc =>
        /\ lastCall.ret = RetObj("Page", heap[lastCall.self]._page)
        /\ driver.pages[lastCall.ret.i].context = heap[lastCall.self]._context
        /\ driver.pages[lastCall.ret.i].context \notin ClosedBy(lastCall.self)

\* the first page access after close_context(): it created a context and a
\* page in it, while the page of the closed context still exists, closed
C5_Witness ==
    /\ lastCall.op = "page"
    /\ lastCall.exc = NoExc
    /\ ClosedBy(lastCall.self) # {}
    /\ Len(lastCall.trace) = 2
    /\ lastCall.trace[1].call = "new_context"
    /\ lastCall.trace[2].call = "new_page"
    /\ \E p \in Pages : driver.pages[p].context \in ClosedBy(lastCall.self)

\* C6: a read of the context (page) accessor of an ability with a cached
\* context (page) returns the cached one and calls nothing on the driver; a
\* read with an empty cache calls new_context (new_page) once and caches
\* what it got; and a cached context changes only by close_context of that
\* ability, a cached page only by its close_page or close_context.
C6_AccessorsIdempotent ==
    [][\A x \in DOMAIN heap :
        /\ Idle /\ lastCall'.self = x /\ lastCall'.op = "context" =>
            IF heap[x]._context # None
            THEN /\ lastCall'.ret = RetObj("BrowserContext", heap[x]._context)
                 /\ lastCall'.trace = <<>>
                 /\ UNCHANGED <<heap, driver>>
            ELSE lastCall'.exc = NoExc =>
                 /\ Len(lastCall'.trace) = 1
                 /\ lastCall'.trace[1].call = "new_context"
                 /\ heap'[x]._context = lastCall'.ret.i
        /\ Idle /\ lastCall'.self = x /\ lastCall'.op = "page" =>
            IF heap[x]._page # None
            THEN /\ lastCall'.ret = RetObj("Page", heap[x]._page)
                 /\ lastCall'.trace = <<>>
                 /\ UNCHANGED <<heap, driver>>
            ELSE lastCall'.exc = NoExc =>
                 /\ Cardinality({i \in DOMAIN lastCall'.trace :
                        lastCall'.trace[i].call = "new_page"}) = 1
                 /\ Cardinality({i \in DOMAIN lastCall'.trace :
                        lastCall'.trace[i].call = "new_context"})
                        = IF heap[x]._context = None THEN 1 ELSE 0
                 /\ heap'[x]._page = lastCall'.ret.i
        /\ heap[x]._context # None /\ heap'[x]._context # heap[x]._context =>
            lastCall'.op = "close_context" /\ lastCall'.self = x
        /\ heap[x]._page # None /\ heap'[x]._page # heap[x]._page =>
            lastCall'.op \in {"close_page", "close_context"} /\ lastCall'.self = x
      ]_vars

\* a read of the page accessor that was answered from the cache of a
\* context and a page the ability had created itself
C6_Witness ==
    /\ lastCall.op = "page"
    /\ lastCall.exc = NoExc
    /\ lastCall.trace = <<>>
    /\ lastCall.ret.i = heap[lastCall.self]._page
    /\ \A y \in Abilities : y # lastCall.self => heap[y]._page # lastCall.ret.i

\* C12: close_page() of an ability with a cached page closes that page with
\* one driver call and clears the cached page only: the cached context and
\* every other instance stay as they were and no context is closed or
\* created; a page access of an ability with a cached context and no cached
\* page calls new_page on that context and nothing else, and the page it
\* gets is a new page of that context, now cached.
C12_ClosePageClearsPageOnly ==
    [][\A x \in DOMAIN heap :
        /\ Idle /\ lastCall'.op = "close_page" /\ lastCall'.self = x
               /\ heap[x]._page # None =>
            /\ lastCall'.exc = NoExc
            /\ Len(lastCall'.trace) = 1
            /\ lastCall'.trace[1].call = "page.close"
            /\ lastCall'.trace[1].obj = heap[x]._page
            /\ ~driver'.pages[heap[x]._page].open
            /\ heap' = [heap EXCEPT ![x]._page = None]
            /\ driver'.contexts = driver.contexts
        /\ Idle /\ lastCall'.op = "page" /\ lastCall'.self = x
               /\ heap[x]._page = None /\ heap[x]._context # None =>
            /\ Len(lastCall'.trace) = 1
            /\ lastCall'.trace[1].call = "new_page"
            /\ lastCall'.trace[1].obj = heap[x]._context
            /\ driver'.contexts = driver.contexts
            /\ heap'[x]._context = heap[x]._context
            /\ lastCall'.exc = NoExc =>
                /\ lastCall'.ret.i \notin DOMAIN driver.pages
                /\ driver'.pages[lastCall'.ret.i].context = heap[x]._context
                /\ heap'[x]._page = lastCall'.ret.i
      ]_vars

\* the page access after a close_page(): a new page in the context that
\* holds the closed page and is still open
C12_Witness ==
    /\ lastCall.op = "page"
    /\ lastCall.exc = NoExc
    /\ Len(lastCall.trace) = 1
    /\ lastCall.trace[1].call = "new_page"
    /\ \E p \in Pages :
        /\ p # lastCall.ret.i
        /\ ~driver.pages[p].open
        /\ driver.pages[p].context = heap[lastCall.self]._context
        /\ driver.contexts[driver.pages[p].context].open

\* C13: close_browser() makes one driver call, the close of the browser,
\* and changes no instance: every cached context and page is what it was;
\* with the browser closed, the context (page) accessor of an ability with
\* a cached context (page) still returns the cached one, calls nothing on
\* the driver and creates nothing.
C13_CloseBrowserKeepsCaches ==
    [][\A x \in DOMAIN heap :
        /\ Idle /\ lastCall'.op = "close_browser" /\ lastCall'.self = x =>
            /\ lastCall'.exc = NoExc
            /\ Len(lastCall'.trace) = 1
            /\ lastCall'.trace[1].call = "browser.close"
            /\ ~driver'.browserOpen
            /\ heap' = heap
            /\ Len(driver'.contexts) = Len(driver.contexts)
            /\ Len(driver'.pages) = Len(driver.pages)
        /\ Idle /\ ~driver.browserOpen /\ lastCall'.self = x
               /\ lastCall'.op = "context" /\ heap[x]._context # None =>
            /\ lastCall'.exc = NoExc
            /\ lastCall'.ret = RetObj("BrowserContext", heap[x]._context)
            /\ lastCall'.trace = <<>>
            /\ UNCHANGED <<heap, driver>>
        /\ Idle /\ ~driver.browserOpen /\ lastCall'.self = x
               /\ lastCall'.op = "page" /\ heap[x]._page # None =>
            /\ lastCall'.exc = NoExc
            /\ lastCall'.ret = RetObj("Page", heap[x]._page)
            /\ lastCall'.trace = <<>>
            /\ UNCHANGED <<heap, driver>>
      ]_vars

\* with the browser closed, the page accessor has returned the cached
\* page, by then a closed one
C13_Witness ==
    /\ lastCall.op = "page"
    /\ lastCall.exc = NoExc
    /\ ~driver.browserOpen
    /\ lastCall.trace = <<>>
    /\ lastCall.ret = RetObj("Page", heap[lastCall.self]._page)
    /\ ~driver.pages[lastCall.ret.i].open
    /\ heap[lastCall.self]._context # None

\* C29: an ability made by using or using_page, or a copy bound from one,
\* caches a page only while it caches a context, whatever accesses and
\* closes were made (failed ones included).
C29_PageOnlyWithContext ==
    \A x \in Abilities : heap[x]._page # None => heap[x]._context # None

\* the page accessor of an ability with empty caches made a context and a
\* page in it, and cached both
C29_Witness ==
    /\ lastCall.op = "page"
    /\ lastCall.exc = NoExc
    /\ \E i \in DOMAIN lastCall.trace : lastCall.trace[i].call = "new_context"
    /\ heap[lastCall.self]._page = lastCall.ret.i
    /\ heap[lastCall.self]._context = driver.pages[lastCall.ret.i].context

\* close_page has emptied the page cache and left the context cached
C29_WitnessContextOnly ==
    /\ lastCall.op = "close_page"
    /\ Len(lastCall.trace) = 1
    /\ heap[lastCall.self]._page = None
    /\ heap[lastCall.self]._context # None

\* the abilities made by using or using_page: they are bound to no actor
Originals == {x \in Abilities : heap[x]._actor = None}

\* C30: when all instances are one original and the copies as_actor made
\* of it (or of its copies), a page that the page accessor of any of them
\* returns has not been closed by close_page and is a page of no context
\* that close_context of any of them has closed.
C30_NoStalePageAcrossCopies ==
    /\ Cardinality(Originals) = 1
    /\ driver.browserOpen
    /\ lastCall.op = "page"
    /\ lastCall.exc = NoExc
    => /\ driver.pages[lastCall.ret.i].open
       /\ \A pair \in closedBy : driver.pages[lastCall.ret.i].context # pair[2]

-----------------------------------------------------------------------------
(* Claims on the retry utilities, checked under SpecRetry *)

\* the positions, in the calls of the last retried call, of the calls named
RetryCalls(name) ==
    {i \in DOMAIN retrying.call.end.calls : retrying.call.end.calls[i].call = name}

\* the exception the wrapped function of the last call raises in an attempt
Thrown(attempt) == Exception(retrying.call.func[attempt], "func", attempt)

\* C25: with max_attempts >= 1, the wrapper made by retry invokes the
\* function at most max_attempts times, one attempt after the other; an
\* invocation that returns is the last call made and its result is what
\* the wrapper returns; when the function was invoked max_attempts times
\* and each time raised an exception of a retried type, the wrapper raises
\* RetryError with last_exception the exception of the last attempt, and
\* an on_retry callback, when one is given, was called max_attempts - 1
\* times: after each failed attempt but the last.
C25_RetryAtMostMaxAttempts ==
    retrying.call.op = "wrapper" /\ retrying.obj.max_attempts >= 1 =>
        LET calls == retrying.call.end.calls
            n == retrying.obj.max_attempts
        IN  /\ Cardinality(RetryCalls("invoke")) <= n
            /\ \A i \in RetryCalls("invoke") :
                   /\ calls[i].attempt = Cardinality({j \in RetryCalls("invoke") : j <= i})
                   /\ retrying.call.func[calls[i].attempt] = "return" =>
                          /\ i = Len(calls)
                          /\ retrying.call.end.returned
                          /\ retrying.call.end.value = calls[i].attempt
            /\ retrying.call.end.returned =>
                   retrying.call.func[retrying.call.end.value] = "return"
            /\ (/\ Cardinality(RetryCalls("invoke")) = n
                /\ \A k \in 1..n :
                       /\ retrying.call.func[k] # "return"
                       /\ \E i \in DOMAIN retrying.obj.exceptions.classes :
                              IsInstance(Thrown(k), retrying.obj.exceptions.classes[i]))
                   => /\ ~retrying.call.end.returned
                      /\ retrying.call.end.exc.type = "RetryError"
                      /\ retrying.call.end.last_exception = Thrown(n)
                      /\ retrying.obj.on_retry # None =>
                             /\ Cardinality(RetryCalls("on_retry")) = n - 1
                             /\ \A k \in 1..(n - 1) :
                                    \E i \in RetryCalls("on_retry") :
                                        /\ calls[i] = OnRetry(k, Thrown(k))
                                        /\ calls[i - 1] = Invoke(k)

\* three attempts were allowed and all three failed: RetryError after two
\* callbacks
C25_Witness ==
    /\ retrying.call.op = "wrapper"
    /\ retrying.obj.max_attempts = 3
    /\ retrying.obj.on_retry # None
    /\ Cardinality(RetryCalls("invoke")) = 3
    /\ Cardinality(RetryCalls("on_retry")) = 2
    /\ retrying.call.end.exc.type = "RetryError"
    /\ retrying.call.end.last_exception = Thrown(3)

\* the second of three allowed attempts returned: no third attempt
C25_WitnessSecondAttempt ==
    /\ retrying.call.op = "wrapper"
    /\ retrying.obj.max_attempts = 3
    /\ Cardinality(RetryCalls("invoke")) = 2
    /\ retrying.call.end.returned
    /\ retrying.call.end.value = 2

\* C26: whatever max_attempts is, the raise placed after the retry loop is
\* not reached: the wrapper and RetryableAction.execute invoke the wrapped
\* function at least once and end by returning its result or by raising
\* from inside the loop.
C26_FallbackNeverReached ==
    retrying.call.op \in {"wrapper", "execute"} =>
        /\ RetryCalls("invoke") # {}
        /\ retrying.call.end.message \notin
               {"Unexpected error in retry logic for func",
                "Unexpected error in retry logic"}

\* the exception is an instance of none of the classes retried by the
\* decorated function or RetryableAction of the state
NotRetried(e) ==
    \A i \in DOMAIN retrying.obj.exceptions.classes :
        ~IsInstance(e, retrying.obj.exceptions.classes[i])

\* C27: when an invocation of the wrapped function raises an exception
\* that is an instance of none of the configured exception types, that
\* invocation is the last call made (no further attempt, no on_retry
\* callback, no sleep) and the caller gets that very exception, not a
\* RetryError; this holds of the wrapper and of RetryableAction.execute.
C27_OtherExceptionsPropagate ==
    retrying.call.op \in {"wrapper", "execute"} =>
        \A i \in RetryCalls("invoke") :
            LET k == retrying.call.end.calls[i].attempt
            IN  retrying.call.func[k] # "return" /\ NotRetried(Thrown(k)) =>
                    /\ i = Len(retrying.call.end.calls)
                    /\ ~retrying.call.end.returned
                    /\ retrying.call.end.exc = Thrown(k)
                    /\ retrying.call.end.message = ""
                    /\ retrying.call.end.last_exception = NoException

\* ValueError is retried; the second attempt raised a TimeoutError, which
\* reached the caller of the wrapper
C27_Witness ==
    /\ retrying.call.op = "wrapper"
    /\ retrying.obj.exceptions.classes = <<"ValueError">>
    /\ Cardinality(RetryCalls("invoke")) = 2
    /\ retrying.call.func[1] = "ValueError"
    /\ retrying.call.end.exc = Exception("TimeoutError", "func", 2)

\* the same with a RetryableAction configured by on_exceptions(ValueError)
C27_WitnessExecute ==
    /\ retrying.call.op = "execute"
    /\ retrying.obj.exceptions.classes = <<"ValueError">>
    /\ Cardinality(RetryCalls("invoke")) = 2
    /\ retrying.call.func[1] = "ValueError"
    /\ retrying.call.end.exc = Exception("TimeoutError", "func", 2)

\* the RetryableAction configured as the closure c of the decorator is
AsRetryableAction(c) ==
    RetryableAction_on_retry(
        on_exceptions(
            with_backoff(with_delay(with_max_attempts(with_retry, c.max_attempts),
                                    c.delay),
                         c.backoff),
            c.exceptions.classes),
        c.on_retry)

\* the decorator configured as the RetryableAction self is
AsRetry(self) ==
    retry(self.max_attempts, self.delay, self.backoff, self.exceptions,
          self.on_retry_callback)

\* the same calls and the same outcome; the message of a RetryError is left
\* out of the comparison
SameEnd(a, b) ==
    /\ a.calls = b.calls
    /\ a.returned = b.returned
    /\ a.value = b.value
    /\ a.exc = b.exc
    /\ a.last_exception = b.last_exception

RECURSIVE Pow(_, _)
Pow(b, k) == IF k = 0 THEN 1 ELSE b * Pow(b, k - 1)

\* C28: a call of a function decorated by retry and RetryableAction.execute
\* of an action configured with the same max_attempts, delay, backoff,
\* exception classes and callback make the same invocations, callbacks and
\* sleeps in the same order and end alike (same result, same exception, or
\* RetryError with the same last_exception); so do retry() and a fresh
\* RetryableAction with their defaults; the k-th sleep of either lasts
\* delay * backoff^(k-1).
C28_DecoratorAndExecuteAgree ==
    /\ retrying.call.op = "wrapper" =>
           /\ SameEnd(retrying.call.end,
                      execute(AsRetryableAction(retrying.obj), retrying.call.func))
           /\ retrying.obj = retry_defaults =>
                  SameEnd(retrying.call.end, execute(with_retry, retrying.call.func))
    /\ retrying.call.op = "execute" =>
           /\ SameEnd(retrying.call.end,
                      wrapper(AsRetry(retrying.obj), retrying.call.func))
           /\ retrying.obj = with_retry =>
                  SameEnd(retrying.call.end, wrapper(retry_defaults, retrying.call.func))
    /\ \A i \in RetryCalls("sleep") :
           retrying.call.end.calls[i].seconds =
               retrying.obj.delay
                   * Pow(retrying.obj.backoff,
                         Cardinality({j \in RetryCalls("sleep") : j < i}))

\* execute slept 1 and then 2 seconds between three failed attempts
C28_Witness ==
    /\ retrying.call.op = "execute"
    /\ Cardinality(RetryCalls("invoke")) = 3
    /\ \E i, j \in RetryCalls("sleep") :
           /\ i < j
           /\ retrying.call.end.calls[i].seconds = 1
           /\ retrying.call.end.calls[j].seconds = 2
    /\ retrying.call.end.exc.type = "RetryError"

\* the wrapper of retry() with its defaults was called and retried once
C28_WitnessDefaults ==
    /\ retrying.call.op = "wrapper"
    /\ retrying.obj = retry_defaults
    /\ Cardinality(RetryCalls("invoke")) = 2
    /\ retrying.call.end.returned

====
